---------------------------- MODULE Spec2Model ----------------------------
(***************************************************************************)
(* A model of the BusyBee meeting-minutes pipeline.                        *)
(*                                                                         *)
(* Text is modelled as a sequence of tokens.  A token is one word or one   *)
(* punctuation mark of the text; consecutive word tokens are separated by  *)
(* one blank in the text they stand for.  A regular expression of the      *)
(* source is modelled by the condition it puts on consecutive tokens; \b   *)
(* is a token boundary, \s+ the gap between two tokens.                    *)
(*                                                                         *)
(* The module holds several specifications over one set of variables, one  *)
(* per component of the program:                                           *)
(*   SpecNames     the Name Normalizer (correctNames)                      *)
(*   SpecMotions   the motion extractor (extractDetailedMotions)           *)
(*   SpecAnalysis  AIProcessor.processTranscript: the analysis aggregator  *)
(*                 and the documents assembled from its result             *)
(*   SpecClient    the upload handlers, OpenAIClient and the route         *)
(*                 POST /api/ai-process with the model call it makes       *)
(*   SpecFiles     the classifier isOfficialOrder and the filing of the    *)
(*                 summary document by FileOrganizer and saveMeetingFiles  *)
(*   SpecCache     the response cache of POST /api/ai-process over a       *)
(*                 sequence of requests and a clock                        *)
(*   SpecTemplate  AIProcessor.generateRealRobertsRulesSummary: the        *)
(*                 template fetched from /api/template and filled          *)
(*   SpecLive      the hook useLiveTranscription: its functions and the    *)
(*                 events of the speech recognition objects it creates     *)
(*   SpecRecorder  the hook useAudioRecorder: its functions, the renders   *)
(*                 of its component and the events of its recorders        *)
(***************************************************************************)
EXTENDS Integers, Sequences, FiniteSets, TLC

VARIABLES
    \* Name Normalizer
    text,       \* the transcript handed to correctNames
    once,       \* correctNames(text), once npc is past "input"
    twice,      \* correctNames(correctNames(text)), once npc = "twice"
    npc,        \* "input", "once" or "twice": how many passes have run
    \* Motion extractors
    mtext,      \* the transcript handed to the motion extractor
    motions,    \* the motions it returned
    mpc,        \* "input", or the extractor that has run
    \* AIProcessor.processTranscript
    atext,      \* the transcript handed to processTranscript
    atitle,     \* the meeting title
    atype,      \* the meeting type
    deep,       \* what performDeepTranscriptAnalysis returned
    result,     \* the AIProcessingResult processTranscript resolved with
    apc,        \* "input" or "done"
    \* The upload handlers, OpenAIClient and POST /api/ai-process
    centry,     \* the handler the user started
    ctext,      \* the text of the uploaded file, or the speech of the audio
    ctitle,     \* the meeting title typed in the form; <<>> when left empty
    ctype,      \* the meeting type chosen in the form
    creq,       \* the request in flight to /api/ai-process; <<>>: none
    cresp,      \* the response in flight to the client; <<>>: none
    cresult,    \* the processing result the handler received; <<>>: none
    ctoast,     \* the message toast.error showed; "": none
    llm,        \* how the call of openai.chat.completions.create went
    caught,     \* the message of the error a catch block of the client caught
    extracted,  \* performDeepTranscriptAnalysis has run its extractors
    cpc,        \* "input", "request", "response", "done", "rejected" (the
                \* handler refused the input), "rejection" (a promise the
                \* handler awaited was rejected), "stored" or "failed"
    recordings, \* the list under the key 'recordings' of localStorage
    \* Filing: FileOrganizer and AIProcessor.saveMeetingFiles
    fresults,   \* the processing results to file, in the order of filing
    ftitle,     \* the meeting title the files are named after
    fsaver,     \* "saveMeetingFiles" or "saveOrganizedFiles"
    fsaved,     \* what was filed for each result so far
    fpc,        \* "input" or "done"
    \* The response cache of POST /api/ai-process
    responseCache, \* the entries of the Map: key, result and timestamp
    clock,      \* Date.now(), in milliseconds since the server started
    cacheOn,    \* process.env.ENABLE_AI_CACHE === 'true'
    posts,      \* the number of requests answered so far
    ticks,      \* the number of times the clock was seen to advance
    answered,   \* for each request, when it was last answered with status 200
    made,       \* for each request, when a model call was last made for it
    last,       \* the last request and how it was answered
    \* AIProcessor.generateRealRobertsRulesSummary
    tdata,      \* the extracted data handed to the synthesizer
    tfetch,     \* how fetch('/api/template') went
    ttemplate,  \* the text the template resource holds
    tdoc,       \* the document the synthesizer resolved with
    tpc,        \* "input" or "done"
    \* useLiveTranscription: the refs, the recognition objects, the state
    isListeningRef, recognitionRef, recognitions, isTranscribing,
    liveTranscript, transcriptSegments, transcriptionError, restartTimers,
    halted, isSupported, resultCount,
    \* The hook useAudioRecorder
    isRecording,      \* state.isRecording
    isPaused,         \* state.isPaused
    audioBlob,        \* state.audioBlob is set
    stream,           \* state.stream: the recorder it feeds; 0: none
    rendered,         \* the state of the last render, which the callbacks of
                      \* the hook close over
    mediaRecorderRef, \* the recorder in mediaRecorderRef.current; 0: null
    mediaRecorders,   \* the MediaRecorder objects created so far
    intervalRef       \* the duration timer set last is running

nameVars == <<text, once, twice, npc>>
motionVars == <<mtext, motions, mpc>>
analysisVars == <<atext, atitle, atype, deep, result, apc>>
clientVars ==
    <<centry, ctext, ctitle, ctype, creq, cresp, cresult, ctoast, llm, caught,
      extracted, cpc, recordings>>

fileVars == <<fresults, ftitle, fsaver, fsaved, fpc>>

cacheVars ==
    <<responseCache, clock, cacheOn, posts, ticks, answered, made, last>>

templateVars == <<tdata, tfetch, ttemplate, tdoc, tpc>>

liveVars ==
    <<isListeningRef, recognitionRef, recognitions, isTranscribing,
      liveTranscript, transcriptSegments, transcriptionError, restartTimers,
      halted, isSupported, resultCount>>

recorderVars ==
    <<isRecording, isPaused, audioBlob, stream, rendered, mediaRecorderRef,
      mediaRecorders, intervalRef>>

vars ==
    <<nameVars, motionVars, analysisVars, clientVars, fileVars, cacheVars,
      templateVars,
      liveVars,
      recorderVars>>

\* The variables of a component that has not been given an input.
IdleNames == text = <<>> /\ once = <<>> /\ twice = <<>> /\ npc = "idle"
IdleMotions == mtext = <<>> /\ motions = <<>> /\ mpc = "idle"
IdleAnalysis ==
    /\ atext = <<>> /\ atitle = <<>> /\ atype = ""
    /\ deep = <<>> /\ result = <<>> /\ apc = "idle"

IdleClient ==
    /\ centry = "" /\ ctext = <<>> /\ ctitle = <<>> /\ ctype = ""
    /\ creq = <<>> /\ cresp = <<>> /\ cresult = <<>> /\ ctoast = ""
    /\ llm = "" /\ caught = "" /\ extracted = FALSE /\ cpc = "idle"
    /\ recordings = <<>>

IdleFiles ==
    /\ fresults = <<>> /\ ftitle = <<>> /\ fsaver = "" /\ fsaved = <<>>
    /\ fpc = "idle"

IdleCache ==
    /\ responseCache = {} /\ clock = 0 /\ cacheOn = FALSE /\ posts = 0
    /\ ticks = 0 /\ answered = {} /\ made = {} /\ last = <<>>

IdleTemplate ==
    /\ tdata = <<>> /\ tfetch = "" /\ ttemplate = <<>> /\ tdoc = <<>>
    /\ tpc = "idle"

IdleLive ==
    /\ isListeningRef = FALSE /\ recognitionRef = 0 /\ recognitions = <<>>
    /\ isTranscribing = FALSE /\ liveTranscript = <<>>
    /\ transcriptSegments = <<>> /\ transcriptionError = ""
    /\ restartTimers = 0 /\ halted = "" /\ isSupported = FALSE
    /\ resultCount = 0

IdleRecorder ==
    /\ isRecording = FALSE /\ isPaused = FALSE /\ audioBlob = FALSE /\ stream = 0
    /\ rendered = <<>> /\ mediaRecorderRef = 0 /\ mediaRecorders = <<>>
    /\ intervalRef = FALSE

\* The components other than one.
besideNames ==
    <<motionVars, analysisVars, clientVars, fileVars, cacheVars,
      templateVars, liveVars, recorderVars>>
besideMotions ==
    <<nameVars, analysisVars, clientVars, fileVars, cacheVars,
      templateVars, liveVars, recorderVars>>
besideAnalysis ==
    <<nameVars, motionVars, clientVars, fileVars, cacheVars, templateVars,
      liveVars, recorderVars>>
besideClient ==
    <<nameVars, motionVars, analysisVars, fileVars, cacheVars,
      templateVars, liveVars, recorderVars>>
besideFiles ==
    <<nameVars, motionVars, analysisVars, clientVars, cacheVars,
      templateVars, liveVars, recorderVars>>
besideCache ==
    <<nameVars, motionVars, analysisVars, clientVars, fileVars,
      templateVars, liveVars, recorderVars>>
besideTemplate ==
    <<nameVars, motionVars, analysisVars, clientVars, fileVars, cacheVars,
      liveVars, recorderVars>>
besideLive ==
    <<nameVars, motionVars, analysisVars, clientVars, fileVars, cacheVars,
      templateVars, recorderVars>>
besideRecorder ==
    <<nameVars, motionVars, analysisVars, clientVars, fileVars, cacheVars,
      templateVars, liveVars>>
IdleBesideNames ==
    /\ IdleMotions
    /\ IdleAnalysis
    /\ IdleClient
    /\ IdleFiles
    /\ IdleCache
    /\ IdleTemplate
    /\ IdleLive
    /\ IdleRecorder
IdleBesideMotions ==
    /\ IdleNames
    /\ IdleAnalysis
    /\ IdleClient
    /\ IdleFiles
    /\ IdleCache
    /\ IdleTemplate
    /\ IdleLive
    /\ IdleRecorder
IdleBesideAnalysis ==
    /\ IdleNames
    /\ IdleMotions
    /\ IdleClient
    /\ IdleFiles
    /\ IdleCache
    /\ IdleTemplate
    /\ IdleLive
    /\ IdleRecorder
IdleBesideClient ==
    /\ IdleNames
    /\ IdleMotions
    /\ IdleAnalysis
    /\ IdleFiles
    /\ IdleCache
    /\ IdleTemplate
    /\ IdleLive
    /\ IdleRecorder
IdleBesideFiles ==
    /\ IdleNames
    /\ IdleMotions
    /\ IdleAnalysis
    /\ IdleClient
    /\ IdleCache
    /\ IdleTemplate
    /\ IdleLive
    /\ IdleRecorder
IdleBesideCache ==
    /\ IdleNames
    /\ IdleMotions
    /\ IdleAnalysis
    /\ IdleClient
    /\ IdleFiles
    /\ IdleTemplate
    /\ IdleLive
    /\ IdleRecorder
IdleBesideTemplate ==
    /\ IdleNames
    /\ IdleMotions
    /\ IdleAnalysis
    /\ IdleClient
    /\ IdleFiles
    /\ IdleCache
    /\ IdleLive
    /\ IdleRecorder
IdleBesideLive ==
    /\ IdleNames
    /\ IdleMotions
    /\ IdleAnalysis
    /\ IdleClient
    /\ IdleFiles
    /\ IdleCache
    /\ IdleTemplate
    /\ IdleRecorder
IdleBesideRecorder ==
    /\ IdleNames
    /\ IdleMotions
    /\ IdleAnalysis
    /\ IdleClient
    /\ IdleFiles
    /\ IdleCache
    /\ IdleTemplate
    /\ IdleLive

-----------------------------------------------------------------------------
(* Sequences *)

\* All sequences over S of length 0..n.
SeqUpTo(S, n) == UNION {[1..k -> S] : k \in 0..n}

\* s.substring(i - 1): the tokens of s from position i on.
From(s, i) == SubSeq(s, i, Len(s))

RECURSIVE Flatten(_)
\* The concatenation of a sequence of token sequences.
Flatten(ss) == IF ss = <<>> THEN <<>> ELSE Head(ss) \o Flatten(From(ss, 2))

-----------------------------------------------------------------------------
(* Letter case *)

\* String.prototype.toLowerCase on one token.  Tokens the models use in
\* capitalised form are listed; every other token is already lower case.
toLowerCase(tok) ==
    CASE tok = "Muna" -> "muna"
      [] tok = "MUNA" -> "muna"
      [] tok = "Raymond" -> "raymond"
      [] tok = "Chair" -> "chair"
      [] tok = "Chairman" -> "chairman"
      [] tok = "Patrick" -> "patrick"
      [] tok = "Fitial" -> "fitial"
      [] tok = "Victoria" -> "victoria"
      [] tok = "Bellas" -> "bellas"
      [] tok = "Motion" -> "motion"
      [] tok = "Board" -> "board"
      [] tok = "Commission" -> "commission"
      [] tok = "John" -> "john"
      [] tok = "Smith" -> "smith"
      [] tok = "May" -> "may"
      [] tok = "I" -> "i"
      [] tok = "CSC" -> "csc"
      [] tok = "CSC-24-011" -> "csc-24-011"
      [] tok = "Final" -> "final"
      [] OTHER -> tok

\* toLowerCase on a text.
LowerText(s) == [i \in 1..Len(s) |-> toLowerCase(s[i])]

-----------------------------------------------------------------------------
(* Text as tokens *)

\* Punctuation marks: written with no blank before them.
Glued == {".", "!", "?", ",", ":"}

\* The line break.
NL == "NL"

\* Number tokens and their values (parseInt).
Numbers == {"0", "1", "2", "3", "4", "5", "2025"}
parseInt(tok) ==
    CASE tok = "0" -> 0 [] tok = "1" -> 1 [] tok = "2" -> 2
      [] tok = "3" -> 3 [] tok = "4" -> 4 [] tok = "5" -> 5
      [] tok = "2025" -> 2025

\* Tokens that match \d{1,2}:\d{2}.
Times == {"10:30"}

\* A stretch of a thousand characters in which no pattern of the program
\* finds a letter, a digit, a full stop or a line break.
Filler == "#x1000"

\* The number of characters of a token.
Chars(tok) ==
    CASE tok \in Glued \cup (Numbers \ {"2025"}) \cup {NL, "-", "I", "a"} -> 1
      [] tok \in {"to", "by", "we", "go", "on", "of", "in", "is", "no"} -> 2
      [] tok \in {"the", "aye", "nay", "yes", "May", "old", "new", "for",
                  "CSC", "fix", "lot", "and"} -> 3
      [] tok \in {"move", "Muna", "muna", "MUNA", "will", "item", "said",
                  "call", "roll", "John", "plan", "next", "case", "csc-",
                  "2025", "date"} -> 4
      [] tok \in {"table", "until", "staff", "board", "Board", "Chair",
                  "cases", "hires", "Smith", "order", "favor", "shall",
                  "10:30", "moved"} -> 5
      [] tok \in {"motion", "Motion", "Fitial", "Bellas", "second", "budget",
                  "report", "agenda", "public", "review", "annual", "please",
                  "hereby", "notice", "tabled", "failed", "passed",
                  "called"} -> 6
      [] tok \in {"Patrick", "Raymond", "approve", "adjourn", "carried",
                  "prepare", "minutes", "pending", "comment", "parking",
                  "meeting", "ordered", "present", "hearing", "against"} -> 7
      [] tok \in {"Victoria", "seconded", "approved", "business", "proposal",
                  "training", "Chairman", "decision"} -> 8
      [] tok \in {"quarterly", "unanimous", "amendment"} -> 9
      [] tok \in {"discussion", "commission", "Commission"} -> 10
      [] tok \in {"unanimously"} -> 11
      [] tok = Filler -> 1000
      [] OTHER -> 4

\* [A-Z][a-z]+ under the i flag matches the whole token: a word of two or
\* more letters.
IsWord(tok) ==
    /\ tok \notin Glued \cup Numbers \cup Times \cup {NL, "-", Filler}
    /\ Chars(tok) >= 2

\* The number of blanks written before token i of s.
Gap(s, i) ==
    IF i = 1 \/ s[i] \in Glued \/ s[i] = NL \/ s[i - 1] = NL THEN 0 ELSE 1

RECURSIVE Offset(_, _)
\* The index, in the text s stands for, of the first character of token i;
\* for i = Len(s) + 1, the length of the text.
Offset(s, i) ==
    IF i = 1 THEN 0
    ELSE Offset(s, i - 1) + Chars(s[i - 1])
            + (IF i <= Len(s) THEN Gap(s, i) ELSE 0)

\* s.length
StrLen(s) == Offset(s, Len(s) + 1)

\* The least element of a non-empty set of integers.
Least(S) == CHOOSE x \in S : \A y \in S : x <= y

\* s.substring(lo, hi), lo and hi indices of characters: the tokens that lie
\* whole between the two.  (A token cut by an end of the substring is
\* dropped: the inputs put none but Filler there.)
Substring(s, lo, hi) ==
    LET inside == {i \in 1..Len(s) :
                      Offset(s, i) >= lo /\ Offset(s, i) + Chars(s[i]) <= hi}
    IN  IF inside = {} THEN <<>>
        ELSE SubSeq(s, Least(inside), Least(inside) + Cardinality(inside) - 1)

RECURSIVE Trim(_)
\* s.trim(): blanks are implicit, so only line breaks are stripped.
Trim(s) ==
    IF s = <<>> THEN s
    ELSE IF Head(s) = NL THEN Trim(From(s, 2))
    ELSE IF s[Len(s)] = NL THEN Trim(SubSeq(s, 1, Len(s) - 1))
    ELSE s

\* Whitespace (\s+) separates token i of s from the token after it.
SpaceAfter(s, i) ==
    /\ i < Len(s)
    /\ s[i + 1] \notin Glued

\* The first position from i on that does not hold a line break.
SkipNL(s, i) == Least({j \in i..Len(s) : s[j] # NL} \cup {Len(s) + 1})

\* The first position from i on that holds a token of the set Stop.
StopAt(s, i, Stop) == Least({j \in i..Len(s) : s[j] \in Stop} \cup {Len(s) + 1})

\* The fragments of a lower-case token that the patterns of the program look
\* for: the token itself, and the shorter words it contains.
Fragments(tok) ==
    CASE tok = "unanimously" -> {"unanimous", "unanimously"}
      [] tok = "seconded" -> {"second", "seconded"}
      [] tok = "commission" -> {"commission", "mission"}
      [] tok = "chairman" -> {"chair", "chairman"}
      [] tok = "approved" -> {"approve", "approved"}
      [] tok = "adjourn" -> {"adjour", "adjourn"}
      [] tok = "discussion" -> {"discuss", "discussion"}
      [] tok = "decision" -> {"decision"}
      [] tok = "amendment" -> {"amend", "amendment"}
      [] tok = "csc-24-011" -> {"csc-", "csc-24-011"}
      [] OTHER -> {tok}

\* Token tok contains the fragment word, letter case aside.
Has(tok, word) == word \in Fragments(toLowerCase(tok))

Includes(s, word) == \E i \in 1..Len(s) : Has(s[i], word)

\* lower.includes(word) for a one-word fragment: some token of s contains it.
\* IncludesPhrase: the same for a phrase of several words, one blank apart.
IncludesPhrase(s, phrase) ==
    \E i \in 1..(Len(s) - Len(phrase) + 1) :
        /\ \A k \in 1..Len(phrase) : toLowerCase(s[i + k - 1]) = phrase[k]
        /\ \A k \in 2..Len(phrase) : Gap(s, i + k - 1) = 1

-----------------------------------------------------------------------------
(* Name Normalizer: COMMON_NAMES and correctNames *)

\* The roster, in the order Object.entries yields it: canonical name, then
\* its variations in array order.  "Mu<sqrt><pm>a" stands for the first
\* variation as the source file spells it.
COMMON_NAMES == <<
    [name |-> <<"Raymond", "Muna">>,
     variations |-> << <<"Mu<sqrt><pm>a">>, <<"Raymond">>, <<"Muna">>,
                       <<"Chairman", "Muna">>, <<"Chair", "Muna">> >>],
    [name |-> <<"Patrick", "Fitial">>,
     variations |-> << <<"Vittil">>, <<"Patrick">>, <<"Fitial">>,
                       <<"Vice", "Chair", "Fitial">> >>],
    [name |-> <<"Victoria", "Bellas">>,
     variations |-> << <<"Bellas">>, <<"Victoria">>,
                       <<"Secretary", "Bellas">> >>],
    [name |-> <<"Richard", "Farrell">>,
     variations |-> << <<"Farrell">>, <<"Richard">>,
                       <<"Budget", "Officer", "Farrell">> >>],
    [name |-> <<"Elvira", "Mesgnon">>,
     variations |-> << <<"Olivia">>, <<"Elvira">>, <<"Mesgnon">>,
                       <<"Commissioner", "Mesgnon">> >>],
    [name |-> <<"Michele", "Joab">>,
     variations |-> << <<"Michele">>, <<"Joab">>,
                       <<"Commissioner", "Joab">> >>],
    [name |-> <<"Frances", "Torres">>,
     variations |-> << <<"Frances">>, <<"Torres">>,
                       <<"Commissioner", "Torres">> >>],
    [name |-> <<"Joseph", "Pangelinan">>,
     variations |-> << <<"Joseph">>, <<"Pangelinan">>,
                       <<"Director", "Pangelinan">> >>],
    [name |-> <<"Teresa", "Borja">>,
     variations |-> << <<"Teresa">>, <<"Borja">>,
                       <<"Executive", "Assistant", "Borja">> >>],
    [name |-> <<"Mark", "Scoggins">>,
     variations |-> << <<"Mark">>, <<"Scoggins">>,
                       <<"Hearing", "Officer", "Scoggins">> >>],
    [name |-> <<"Kadianne", "Mangarero">>,
     variations |-> << <<"Kadianne">>, <<"Mangarero">>,
                       <<"Executive", "Secretary", "Mangarero">> >>] >>

\* new RegExp(`\\b${variation}\\b`, 'gi') matches s at token i.
VariationAt(s, variation, i) ==
    /\ i + Len(variation) - 1 <= Len(s)
    /\ \A k \in 1..Len(variation) :
          toLowerCase(s[i + k - 1]) = toLowerCase(variation[k])

RECURSIVE ReplaceAll(_, _, _)
\* s.replace(regex, correctName) with the g flag: matches are taken left to
\* right, none overlapping, and replaced text is not searched again.
ReplaceAll(s, variation, correctName) ==
    IF s = <<>> THEN <<>>
    ELSE IF VariationAt(s, variation, 1)
         THEN correctName
                 \o ReplaceAll(From(s, Len(variation) + 1), variation, correctName)
         ELSE <<Head(s)>> \o ReplaceAll(From(s, 2), variation, correctName)

RECURSIVE ReplaceVariations(_, _, _, _)
\* variations.forEach from index k on.
ReplaceVariations(s, variations, correctName, k) ==
    IF k > Len(variations) THEN s
    ELSE ReplaceVariations(ReplaceAll(s, variations[k], correctName),
                           variations, correctName, k + 1)

RECURSIVE CorrectFrom(_, _)
\* Object.entries(COMMON_NAMES).forEach from entry n on.
CorrectFrom(s, n) ==
    IF n > Len(COMMON_NAMES) THEN s
    ELSE CorrectFrom(ReplaceVariations(s, COMMON_NAMES[n].variations,
                                       COMMON_NAMES[n].name, 1), n + 1)

correctNames(transcript) == CorrectFrom(transcript, 1)

\* Inputs of the Name Normalizer.
MaxNameTokens == 3
NameTokens == {"Muna", "muna", "Raymond", "Chair", "Bellas", "said", "Mu<sqrt><pm>a"}
NameInputs == SeqUpTo(NameTokens, MaxNameTokens)

InitNames ==
    /\ text \in NameInputs
    /\ once = <<>>
    /\ twice = <<>>
    /\ npc = "input"
    /\ IdleBesideNames

\* A first pass of the normalizer over the transcript.
CorrectNames ==
    /\ npc = "input"
    /\ once' = correctNames(text)
    /\ npc' = "once"
    /\ UNCHANGED <<text, twice, besideNames>>

\* A second pass, over the output of the first.
CorrectNamesAgain ==
    /\ npc = "once"
    /\ twice' = correctNames(once)
    /\ npc' = "twice"
    /\ UNCHANGED <<text, once, besideNames>>

NextNames == CorrectNames \/ CorrectNamesAgain

SpecNames == InitNames /\ [][NextNames]_vars

\* C3: Name Normalizer idempotence: a second pass of correctNames over its
\* own output leaves it unchanged.
C3_Idempotent == npc = "twice" => twice = once

\* The words w occur in s as whole words, whatever their case.
Occurs(s, w) == \E i \in 1..Len(s) : VariationAt(s, w, i)

\* C18: when the transcript holds a variation of a roster name, the output
\* of the normalizer holds the canonical name and no variation of any roster
\* name.
C18_VariantsReplaced ==
    npc = "once" =>
        \A e \in 1..Len(COMMON_NAMES) :
            \A v \in 1..Len(COMMON_NAMES[e].variations) :
                Occurs(text, COMMON_NAMES[e].variations[v]) =>
                    /\ Occurs(once, COMMON_NAMES[e].name)
                    /\ \A f \in 1..Len(COMMON_NAMES) :
                          \A w \in 1..Len(COMMON_NAMES[f].variations) :
                              ~Occurs(once, COMMON_NAMES[f].variations[w])

-----------------------------------------------------------------------------
(* AIProcessor.extractVoteDetails and AIProcessor.extractDetailedMotions *)

\* Tokens that begin with the words a count pattern ends in.
YesWords == {"yes", "aye", "ayes"}
NoWords == {"no", "nay", "nays", "against", "notice", "not"}
AbstainWords == {"abstain", "abstained", "abstaining"}

\* /(\d+)\s*(?:words)/gi matches c with its number at token i and its word
\* at token j.  "in favor" belongs to the yes pattern only.
CountWordAt(c, j, words) ==
    /\ j <= Len(c)
    /\ \/ toLowerCase(c[j]) \in words
       \/ /\ words = YesWords
          /\ j < Len(c)
          /\ toLowerCase(c[j]) = "in"
          /\ toLowerCase(c[j + 1]) = "favor"
          /\ Gap(c, j + 1) = 1
CountAt(c, i, words) == c[i] \in Numbers /\ CountWordAt(c, SkipNL(c, i + 1), words)
CountHits(c, words) == {i \in 1..Len(c) : CountAt(c, i, words)}

\* The tokens of the match that starts at token i.
CountTokens(c, i) == SubSeq(c, i, SkipNL(c, i + 1))

\* context.match(pattern): null (<<>>) or the matches; the first one is used.
CountMatch(c, words) ==
    IF CountHits(c, words) = {} THEN <<>>
    ELSE CountTokens(c, Least(CountHits(c, words)))

\* The positions of the digits of a match.
DigitsAt(m) == {i \in 1..Len(m) : m[i] \in Numbers}

\* A variant of DigitsMatch: the inner pattern asks for two digits or more.
DigitsMatchTwoDigits(m) ==
    IF {i \in 1..Len(m) : m[i] \in Numbers /\ Chars(m[i]) >= 2} = {} THEN <<>>
    ELSE <<m[Least({i \in 1..Len(m) : m[i] \in Numbers /\ Chars(m[i]) >= 2})]>>

\* m.match(/\d+/): the first run of digits of m; <<>> for null.
DigitsMatch(m) == IF DigitsAt(m) = {} THEN <<>> ELSE <<m[Least(DigitsAt(m))]>>

\* parseInt(m.match(/\d+/)[0]) throws a TypeError when the inner match is null.
CountThrows(m) == m # <<>> /\ DigitsMatch(m) = <<>>
CountOf(m) == IF m = <<>> \/ CountThrows(m) THEN 0 ELSE parseInt(DigitsMatch(m)[1])

voteType(lowerContext) ==
    IF IncludesPhrase(lowerContext, <<"show", "of", "hands">>) THEN "Show of Hands"
    ELSE IF IncludesPhrase(lowerContext, <<"roll", "call">>) THEN "Roll Call Vote"
    ELSE "Voice Vote"

voteOutcome(lowerContext) ==
    IF Includes(lowerContext, "tabled") THEN "Tabled"
    ELSE IF Includes(lowerContext, "unanimous") THEN "Unanimous"
    ELSE IF Includes(lowerContext, "failed") \/ Includes(lowerContext, "defeated")
         THEN "Failed"
    ELSE IF Includes(lowerContext, "carried") \/ Includes(lowerContext, "passed")
         THEN "Carried"
    ELSE "Unknown"

\* The object extractVoteDetails returns, from the three matches.  threw: the
\* function threw instead of returning; counted: count is defined.
VoteDetails(context, yesMatch, noMatch, abstainMatch) ==
    [threw |-> CountThrows(yesMatch) \/ CountThrows(noMatch)
                  \/ CountThrows(abstainMatch),
     type |-> voteType(LowerText(context)),
     result |-> voteOutcome(LowerText(context)),
     counted |-> yesMatch # <<>> \/ noMatch # <<>> \/ abstainMatch # <<>>,
     count |-> [yes |-> CountOf(yesMatch), no |-> CountOf(noMatch),
                abstain |-> CountOf(abstainMatch)],
     details |-> Substring(context, 0, 200) \o <<"...">>]

extractVoteDetails(context) ==
    VoteDetails(context, CountMatch(context, YesWords),
                CountMatch(context, NoWords), CountMatch(context, AbstainWords))

\* The characters [^.!?\n]+ stops at.
SentenceEnd == {".", "!", "?", NL}

MoveWords == {"motion", "move"}

NoMove == [hit |-> FALSE, from |-> 0, end |-> 0]

\* ([^.!?\n]+) with its first character at token b of s.
MoveText(s, b) ==
    IF b <= Len(s) /\ s[b] \notin SentenceEnd
    THEN [hit |-> TRUE, from |-> b, end |-> StopAt(s, b, SentenceEnd)]
    ELSE NoMove

\* (?:to\s+)? takes the token at b0, leaving something for group 2 at b.
TakesTo(s, b0, b) ==
    /\ b0 < Len(s)
    /\ toLowerCase(s[b0]) = "to"
    /\ SpaceAfter(s, b0)
    /\ b <= Len(s)
    /\ s[b] \notin SentenceEnd

\* (?:to\s+)?([^.!?\n]+) from token b0 of s on.
MoveFrom(s, b0) ==
    IF TakesTo(s, b0, SkipNL(s, b0 + 1)) THEN MoveText(s, SkipNL(s, b0 + 1))
    ELSE MoveText(s, b0)

\* (?:motion|move)\s+(?:to\s+)?([^.!?\n]+) matched with motion or move at
\* token mv of s.  hit: it matches; group 2 is the tokens from..end-1, and
\* the match ends before token end.
MoveAt(s, mv) ==
    IF mv <= Len(s) /\ toLowerCase(s[mv]) \in MoveWords /\ SpaceAfter(s, mv)
    THEN MoveFrom(s, SkipNL(s, mv + 1))
    ELSE NoMove

\* ([A-Z][a-z]+\s+[A-Z][a-z]+)\s+ takes part in a match that starts at token
\* i.  (A name is two consecutive words on one line.)
NamedAt(s, i) ==
    /\ i + 2 <= Len(s)
    /\ IsWord(s[i]) /\ IsWord(s[i + 1])
    /\ MoveAt(s, i + 2).hit

MatchWith(m, maker) == [hit |-> m.hit, maker |-> maker, from |-> m.from, end |-> m.end]

\* motionPattern matched with its first character at token i of s:
\*   (?:([A-Z][a-z]+\s+[A-Z][a-z]+)\s+)?(?:motion|move)\s+(?:to\s+)?([^.!?\n]+)
\* maker is group 1, <<>> when the name took no part in the match.
MotionAt(s, i) ==
    IF NamedAt(s, i) THEN MatchWith(MoveAt(s, i + 2), <<s[i], s[i + 1]>>)
    ELSE MatchWith(MoveAt(s, i), <<>>)

\* Tokens that end, and tokens that begin, with second or seconded.
SecondWords == {"second", "seconded"}

\* secondPattern matched with its first character at token i of c:
\*   (?:second(?:ed)?\s+by\s+(NAME))|(?:(NAME)\s+second(?:ed)?)
\* The seconder it captures, or <<>> when it does not match there.
SecondAt(c, i) ==
    IF /\ i + 3 <= Len(c)
       /\ toLowerCase(c[i]) \in SecondWords
       /\ toLowerCase(c[i + 1]) = "by"
       /\ IsWord(c[i + 2]) /\ IsWord(c[i + 3])
    THEN <<c[i + 2], c[i + 3]>>
    ELSE IF /\ i + 2 <= Len(c)
            /\ IsWord(c[i]) /\ IsWord(c[i + 1])
            /\ toLowerCase(c[i + 2]) \in SecondWords
    THEN <<c[i], c[i + 1]>>
    ELSE <<>>

SecondHits(c) == {i \in 1..Len(c) : SecondAt(c, i) # <<>>}

\* secondPattern.exec(context): the capture of the leftmost match, or <<>>.
SecondMatch(c) == IF SecondHits(c) = {} THEN <<>> ELSE SecondAt(c, Least(SecondHits(c)))

DefaultMember == <<"Member">>

\* match[1] || 'Member', secondMatch ? ... : 'Member'
OrMember(name) == IF name # <<>> THEN name ELSE DefaultMember

\* Tokens the discussion is cut at: split(/(?:motion|vote|carried|failed)/i)[0]
DiscussionCut == {"motion", "Motion", "vote", "voted", "carried", "failed"}

FirstPiece(d) == Trim(SubSeq(d, 1, StopAt(d, 1, DiscussionCut) - 1))

Discussion(s, start) == FirstPiece(Substring(s, start, start + 800))

AmendWords == {"amend", "amendment", "amended"}

\* /amend(?:ment)?[:\s]*([^.\n]+)/ matches c from token j on.
AmendAt(c, j) ==
    /\ toLowerCase(c[j]) \in AmendWords
    /\ \/ toLowerCase(c[j]) = "amended"
       \/ /\ SkipNL(c, j + 1) <= Len(c)
          /\ c[SkipNL(c, j + 1)] \notin {".", NL}
AmendHits(c, i) == {j \in i..Len(c) : AmendAt(c, j)}

RECURSIVE AmendmentsFrom(_, _, _)
\* context.match(amendmentPattern) from token i on, each match trimmed and
\* added to acc; <<>> stands for undefined.
AmendmentsFrom(c, i, acc) ==
    IF AmendHits(c, i) = {} THEN acc
    ELSE AmendmentsFrom(c,
            StopAt(c, SkipNL(c, Least(AmendHits(c, i)) + 1), {".", NL}),
            Append(acc, Trim(SubSeq(c, Least(AmendHits(c, i)),
                     StopAt(c, SkipNL(c, Least(AmendHits(c, i)) + 1), {".", NL}) - 1))))

\* transcript.substring(contextStart, contextEnd) around character index.
ContextOf(s, index) ==
    Substring(s, IF index > 500 THEN index - 500 ELSE 0,
              IF StrLen(s) < index + 1000 THEN StrLen(s) ELSE index + 1000)

\* The motion pushed for a match.  The field index is match.index, kept to
\* state properties of the lookahead window.
MotionOf(s, n, match, index, context) ==
    [number |-> n,
     text |-> Trim(SubSeq(s, match.from, match.end - 1)),
     maker |-> OrMember(match.maker),
     seconder |-> OrMember(SecondMatch(context)),
     discussion |-> Discussion(s, Offset(s, match.end)),
     amendments |-> AmendmentsFrom(context, 1, <<>>),
     vote |-> extractVoteDetails(context),
     index |-> index]

\* motions.push(m), unless building m threw.
Push(acc, m) ==
    IF m.vote.threw THEN [threw |-> TRUE, motions |-> acc.motions]
    ELSE [threw |-> FALSE, motions |-> Append(acc.motions, m)]

MotionHits(s, i) == {j \in i..Len(s) : MotionAt(s, j).hit}

RECURSIVE MotionLoop(_, _, _, _)
\* One round of the loop for the match that starts at token j.
MotionTake(s, j, match, n, acc) ==
    IF StrLen(Trim(SubSeq(s, match.from, match.end - 1))) > 10
    THEN MotionLoop(s, match.end, n + 1,
                    Push(acc, MotionOf(s, n, match, Offset(s, j),
                                       ContextOf(s, Offset(s, j)))))
    ELSE MotionLoop(s, match.end, n, acc)

\* The while loop over motionPattern.exec(transcript), lastIndex at token i,
\* motionNumber = n, acc the motions pushed so far.
MotionLoop(s, i, n, acc) ==
    IF acc.threw \/ MotionHits(s, i) = {} THEN acc
    ELSE MotionTake(s, Least(MotionHits(s, i)),
                    MotionAt(s, Least(MotionHits(s, i))), n, acc)

\* extractDetailedMotions(transcript): threw tells whether it threw, motions
\* the list it returns otherwise.
extractDetailedMotions(transcript) ==
    MotionLoop(transcript, 1, 1, [threw |-> FALSE, motions |-> <<>>])

-----------------------------------------------------------------------------
(* Sections of the transcript and the business extractors *)

\* The key p, a phrase of one word or more, is found in s at token i: a
\* single word may lie inside the token, the words of a longer phrase are
\* tokens of their own.
KeyAt(s, i, p) ==
    /\ i + Len(p) - 1 <= Len(s)
    /\ IF Len(p) = 1 THEN Has(s[i], p[1])
       ELSE \A k \in 1..Len(p) : toLowerCase(s[i + k - 1]) = p[k]

AnyKeyAt(s, i, keys) == \E p \in keys : KeyAt(s, i, p)

KeyHits(s, i, keys) == {j \in i..Len(s) : AnyKeyAt(s, j, keys)}

\* The first position from i on where one of the keys is found, or the end.
KeyFrom(s, i, keys) == Least(KeyHits(s, i, keys) \cup {Len(s) + 1})

\* transcript.match(/start[\s\S]*?(?=stops|$)/gi)[0] when the start phrase is
\* found at token i.
SectionAt(s, i, start, stops) ==
    SubSeq(s, i, KeyFrom(s, i + Len(start), stops) - 1)

\* The section, or <<>> when match returns null.
Section(s, start, stops) ==
    IF KeyHits(s, 1, {start}) = {} THEN <<>>
    ELSE SectionAt(s, Least(KeyHits(s, 1, {start})), start, stops)

\* The end of the line token i is on: the position of the next line break.
LineEnd(s, i) == StopAt(s, i, {NL})

\* (?:item\s*\d+|\d+\.) matches c at tokens i and i + 1.
MarkerAt(c, i) ==
    /\ i < Len(c)
    /\ \/ toLowerCase(c[i]) = "item" /\ c[i + 1] \in Numbers
       \/ c[i] \in Numbers /\ c[i + 1] = "."

\* The numbered-item pattern matches c with its marker at token i: some text
\* follows the marker.
ItemAt(c, i) == MarkerAt(c, i) /\ SkipNL(c, i + 2) <= Len(c)
ItemHits(c, i) == {j \in i..Len(c) : ItemAt(c, j)}

\* The lookahead that ends group 2 of the numbered-item pattern.
ItemStopHits(c, i, stops) ==
    {j \in i..Len(c) : MarkerAt(c, j) \/ AnyKeyAt(c, j, stops)}
ItemStop(c, i, stops) == Least(ItemStopHits(c, i, stops) \cup {Len(c) + 1})

\* The first position from i on that holds neither a colon nor a line break.
SkipColon(d, i) == Least({j \in i..Len(d) : d[j] \notin {":", NL}} \cup {Len(d) + 1})

\* /(?:words)[:\s]*([^.\n]+)/ matches d with its word at token j.
ClauseAt(d, j, words) ==
    /\ \E w \in words : Has(d[j], w)
    /\ SkipColon(d, j + 1) <= Len(d)
    /\ d[SkipColon(d, j + 1)] # "."
ClauseHits(d, words) == {j \in 1..Len(d) : ClauseAt(d, j, words)}
ClauseFrom(d, j) == SubSeq(d, j, StopAt(d, SkipColon(d, j + 1), {".", NL}) - 1)

\* d.match(/(?:words)[:\s]*([^.\n]+)/gi): its first element, or <<>> for
\* undefined when match returns null.
FirstClause(d, words) ==
    IF ClauseHits(d, words) = {} THEN <<>>
    ELSE ClauseFrom(d, Least(ClauseHits(d, words)))

OutcomeWords == {"result", "outcome", "decision"}
OldActionWords == {"action", "will", "shall"}
NewActionWords == {"action", "will", "shall", "approved", "denied"}

\* NAME\s+(?:present|report|discuss) matches d at token i.
PresenterAt(d, i) ==
    /\ i + 2 <= Len(d)
    /\ IsWord(d[i]) /\ IsWord(d[i + 1])
    /\ toLowerCase(d[i + 2]) \in {"present", "presented", "report", "reported",
                                  "discuss", "discussed"}
PresenterHits(d) == {i \in 1..Len(d) : PresenterAt(d, i)}
Presenter(d) ==
    IF PresenterHits(d) = {} THEN <<>>
    ELSE SubSeq(d, Least(PresenterHits(d)), Least(PresenterHits(d)) + 1)

\* The entry pushed for a business item; presentedBy is set for new
\* business only, and <<>> stands for undefined.
BusinessItem(item, discussion, isNew) ==
    [item |-> item,
     discussion |-> discussion,
     presentedBy |-> IF isNew THEN Presenter(discussion) ELSE <<>>,
     outcome |-> FirstClause(discussion, OutcomeWords),
     actionTaken |-> FirstClause(discussion,
                         IF isNew THEN NewActionWords ELSE OldActionWords)]

\* items.push(...) when item.length > 10.
PushItem(items, item, discussion, isNew) ==
    IF StrLen(item) > 10 THEN Append(items, BusinessItem(item, discussion, isNew))
    ELSE items

RECURSIVE NumberedItems(_, _, _, _, _)
\* One match of the numbered-item pattern, marker at token j, text from b on.
NumberedItem(c, j, b, stops, isNew, items) ==
    NumberedItems(c, ItemStop(c, LineEnd(c, b), stops), stops, isNew,
        PushItem(items, Trim(SubSeq(c, b, LineEnd(c, b) - 1)),
                 Trim(SubSeq(c, LineEnd(c, b),
                             ItemStop(c, LineEnd(c, b), stops) - 1)), isNew))

\* The while loop over the numbered-item pattern, lastIndex at token i.
NumberedItems(c, i, stops, isNew, items) ==
    IF ItemHits(c, i) = {} THEN items
    ELSE NumberedItem(c, Least(ItemHits(c, i)),
                      SkipNL(c, Least(ItemHits(c, i)) + 2), stops, isNew, items)

\* The start of the line token i is on.
LineStart(c, i) == Least({j \in 1..i : \A k \in j..i : c[k] # NL} \cup {i})

\* \n[A-Z] under the i flag: a line break followed by a word.
NextParagraph(c, i) ==
    Least({j \in i..Len(c) : c[j] = NL /\ j < Len(c) /\ IsWord(c[j + 1])}
          \cup {Len(c) + 1})

\* /([^\n]{20,}?)\s*-\s*([\s\S]*?)(?=\n[A-Z]|$)/ can match with its dash at
\* token d, the search being at token i: twenty characters or more of the
\* line precede the dash.
DashAt(c, i, d) ==
    /\ c[d] = "-"
    /\ (IF LineStart(c, d) < i THEN i ELSE LineStart(c, d)) < d
    /\ StrLen(SubSeq(c, IF LineStart(c, d) < i THEN i ELSE LineStart(c, d), d - 1)) >= 20
DashHits(c, i) == {d \in i..Len(c) : DashAt(c, i, d)}

RECURSIVE DashItems(_, _, _)
DashItem(c, from, d, items) ==
    DashItems(c, NextParagraph(c, d + 1),
        PushItem(items, Trim(SubSeq(c, from, d - 1)),
                 Trim(SubSeq(c, d + 1, NextParagraph(c, d + 1) - 1)), FALSE))

\* The while loop over the dash pattern, lastIndex at token i.
DashItems(c, i, items) ==
    IF i > Len(c) \/ DashHits(c, i) = {} THEN items
    ELSE DashItem(c, IF LineStart(c, Least(DashHits(c, i))) < i THEN i
                     ELSE LineStart(c, Least(DashHits(c, i))),
                  Least(DashHits(c, i)), items)

OldBusinessStops == {<<"new", "business">>, <<"motion">>, <<"adjour">>}

\* The two item patterns run over the section, one after the other.
OldBusinessItems(section) ==
    DashItems(section, 1,
              NumberedItems(section, 1, {<<"new", "business">>}, FALSE, <<>>))

extractOldBusiness(transcript) ==
    OldBusinessItems(Section(transcript, <<"old", "business">>, OldBusinessStops))

\* /(?:present|presentation).*?([^\n]{20,}?)([\s\S]*?)(?=\n[A-Z]|$)/ matches c
\* with present at token j: twenty characters or more follow on the line.
PresentAt(c, j) ==
    /\ Has(c[j], "present")
    /\ j < Len(c)
    /\ StrLen(SubSeq(c, j + 1, LineEnd(c, j + 1) - 1)) >= 20
PresentHits(c, i) == {j \in i..Len(c) : PresentAt(c, j)}

\* Group 1 takes twenty characters: the shortest run of whole tokens from b
\* on that holds them.
TwentyFrom(c, b) ==
    Least({e \in b..Len(c) : StrLen(SubSeq(c, b, e)) >= 20})

RECURSIVE PresentItems(_, _, _)
PresentItem(c, j, e, items) ==
    PresentItems(c, NextParagraph(c, e + 1),
        PushItem(items, Trim(SubSeq(c, j + 1, e)),
                 Trim(SubSeq(c, e + 1, NextParagraph(c, e + 1) - 1)), TRUE))

\* The while loop over the presentation pattern, lastIndex at token i.
PresentItems(c, i, items) ==
    IF i > Len(c) \/ PresentHits(c, i) = {} THEN items
    ELSE PresentItem(c, Least(PresentHits(c, i)),
                     TwentyFrom(c, Least(PresentHits(c, i)) + 1), items)

NewBusinessStops == {<<"motion">>, <<"public", "comment">>, <<"adjour">>}

NewBusinessItems(section) ==
    PresentItems(section, 1,
                 NumberedItems(section, 1, {<<"public", "comment">>}, TRUE, <<>>))

extractNewBusiness(transcript) ==
    NewBusinessItems(Section(transcript, <<"new", "business">>, NewBusinessStops))

-----------------------------------------------------------------------------
(* Public comment, next meeting, meeting information *)

PublicCommentStops ==
    {<<"new", "business">>, <<"old", "business">>, <<"motion">>, <<"adjour">>}

\* The name of the speaker pattern may end at token q - 1, before a colon.
ColonAt(c, i, q) == c[q] = ":" /\ q > i /\ IsWord(c[q - 1])
ColonHits(c, i) == {q \in i..Len(c) : ColonAt(c, i, q)}

\* ([A-Z][a-z]+(?:\s+[A-Z][a-z]+)*) before the colon at q: the leftmost
\* start, from i on, of a run of words and line breaks that ends at q - 1.
RunStart(c, i, q) ==
    Least({j \in i..(q - 1) :
              /\ IsWord(c[j])
              /\ \A k \in j..(q - 1) : IsWord(c[k]) \/ c[k] = NL})

\* The lookahead (?=\n[A-Z][a-z]+:|$): a line break, one word and a colon.
NextSpeaker(c, i) ==
    Least({j \in i..Len(c) :
              /\ c[j] = NL /\ j + 2 <= Len(c)
              /\ IsWord(c[j + 1]) /\ c[j + 2] = ":"}
          \cup {Len(c) + 1})

\* content.split(/[.!?]/)[0]
FirstSentence(content) == SubSeq(content, 1, StopAt(content, 1, {".", "!", "?"}) - 1)

GeneralComment == <<"General", "Comment">>

\* The first hundred characters, the first three hundred characters.
Topic(content) ==
    IF Substring(Trim(FirstSentence(content)), 0, 100) = <<>> THEN GeneralComment
    ELSE Substring(Trim(FirstSentence(content)), 0, 100)
Summary300(content) ==
    Substring(content, 0, 300) \o (IF StrLen(content) > 300 THEN <<"...">> ELSE <<>>)

PushSpeaker(speakers, name, content) ==
    IF StrLen(content) > 20
    THEN Append(speakers, [name |-> name, topic |-> Topic(content),
                           summary |-> Summary300(content)])
    ELSE speakers

RECURSIVE Speakers(_, _, _)
Speaker(c, i, q, speakers) ==
    Speakers(c, NextSpeaker(c, q + 1),
             PushSpeaker(speakers, Trim(SubSeq(c, RunStart(c, i, q), q - 1)),
                         Trim(SubSeq(c, q + 1, NextSpeaker(c, q + 1) - 1))))

\* The while loop over speakerPattern.exec(section), lastIndex at token i.
Speakers(c, i, speakers) ==
    IF i > Len(c) \/ ColonHits(c, i) = {} THEN speakers
    ELSE Speaker(c, i, Least(ColonHits(c, i)), speakers)

\* defined is FALSE when the function returns undefined.
PublicComment(speakers) == [defined |-> speakers # <<>>, speakers |-> speakers]

extractPublicComment(transcript) ==
    PublicComment(Speakers(Section(transcript, <<"public", "comment">>,
                                   PublicCommentStops), 1, <<>>))

\* (\w+\s+\d{1,2},?\s+\d{4}) matches c from token i on; DateEnd is its last
\* token.
DateEnd(c, i) == IF i + 2 <= Len(c) /\ c[i + 2] = "," THEN i + 3 ELSE i + 2
DateAt(c, i) ==
    /\ i + 2 <= Len(c)
    /\ IsWord(c[i]) \/ c[i] \in Numbers
    /\ c[i + 1] \in Numbers /\ Chars(c[i + 1]) <= 2
    /\ DateEnd(c, i) <= Len(c)
    /\ c[DateEnd(c, i)] \in Numbers /\ Chars(c[DateEnd(c, i)]) = 4
DateHits(c) == {i \in 1..Len(c) : DateAt(c, i)}

\* Tokens that match \d{1,2}\/\d{1,2}\/\d{2,4} and \d{4}-\d{2}-\d{2}.
SlashDates == {"5/12/2025"}
IsoDates == {"2025-05-12"}
TokenHits(c, toks) == {i \in 1..Len(c) : c[i] \in toks}

\* section.match(pattern)[0] for a pattern one token long; <<>>: undefined.
FirstToken(c, toks) ==
    IF TokenHits(c, toks) = {} THEN <<>> ELSE <<c[Least(TokenHits(c, toks))]>>

\* section.match(datePattern)[0]
FirstDate(c) ==
    IF DateHits(c) \cup TokenHits(c, SlashDates) = {} THEN <<>>
    ELSE IF Least(DateHits(c) \cup TokenHits(c, SlashDates)) \in DateHits(c)
    THEN SubSeq(c, Least(DateHits(c)), DateEnd(c, Least(DateHits(c))))
    ELSE FirstToken(c, SlashDates)

\* /(?:words)\s+([^.\n]+)/ matches c with its word at token j.
WordClauseAt(c, j, words) ==
    /\ \E w \in words : Has(c[j], w)
    /\ SpaceAfter(c, j)
    /\ SkipNL(c, j + 1) <= Len(c)
    /\ c[SkipNL(c, j + 1)] # "."
WordClauseHits(c, i, words) == {j \in i..Len(c) : WordClauseAt(c, j, words)}
WordClauseEnd(c, j) == StopAt(c, SkipNL(c, j + 1), {".", NL})

RECURSIVE WordClauses(_, _, _, _)
\* section.match(/(?:words)\s+([^.\n]+)/gi) from token i on, added to acc.
WordClauses(c, i, words, acc) ==
    IF i > Len(c) \/ WordClauseHits(c, i, words) = {} THEN acc
    ELSE WordClauses(c, WordClauseEnd(c, Least(WordClauseHits(c, i, words))), words,
            Append(acc, SubSeq(c, Least(WordClauseHits(c, i, words)),
                     WordClauseEnd(c, Least(WordClauseHits(c, i, words))) - 1)))

\* matches[1]?.trim(): the second match, or <<>> for undefined.
SecondOf(matches) == IF Len(matches) >= 2 THEN Trim(matches[2]) ELSE <<>>

\* defined is FALSE when the function returns undefined.
NextMeeting(section) ==
    [defined |-> section # <<>>,
     date |-> FirstDate(section),
     time |-> FirstToken(section, Times),
     location |-> SecondOf(WordClauses(section, 1, {"at", "location"}, <<>>)),
     specialTopics |-> WordClauses(section, 1, {"agenda", "topic", "discuss"}, <<>>)]

extractNextMeetingInfo(transcript) ==
    NextMeeting(Section(transcript, <<"next", "meeting">>, {<<"motion">>, <<"adjour">>}))

\* new Date().toISOString().split('T')[0]
Today == <<"<today>">>

\* The date of /(?:meeting\s+(?:held\s+)?(?:on\s+)?)(date)/ begins at token d
\* when the pattern matches with meeting at token i.
HeldDate(s, i) ==
    IF i + 1 <= Len(s) /\ toLowerCase(s[i + 1]) = "held"
    THEN (IF i + 2 <= Len(s) /\ toLowerCase(s[i + 2]) = "on" THEN i + 3 ELSE i + 2)
    ELSE (IF i + 1 <= Len(s) /\ toLowerCase(s[i + 1]) = "on" THEN i + 2 ELSE i + 1)
MeetingDateAt(s, i) == Has(s[i], "meeting") /\ DateAt(s, HeldDate(s, i))
MeetingDateHits(s) == {i \in 1..Len(s) : MeetingDateAt(s, i)}

\* /(?:date[:\s]*)([^\n]+)/ matches s with date at token i.
DateLineAt(s, i) == Has(s[i], "date") /\ SkipColon(s, i + 1) <= Len(s)
DateLineHits(s) == {i \in 1..Len(s) : DateLineAt(s, i)}

\* The first of the four date patterns that matches gives match[0].
extractedDate(s) ==
    IF MeetingDateHits(s) # {}
    THEN SubSeq(s, Least(MeetingDateHits(s)),
                DateEnd(s, HeldDate(s, Least(MeetingDateHits(s)))))
    ELSE IF TokenHits(s, SlashDates) # {} THEN FirstToken(s, SlashDates)
    ELSE IF TokenHits(s, IsoDates) # {} THEN FirstToken(s, IsoDates)
    ELSE IF DateLineHits(s) # {}
    THEN SubSeq(s, Least(DateLineHits(s)),
                LineEnd(s, SkipColon(s, Least(DateLineHits(s)) + 1)) - 1)
    ELSE Today

\* /(?:location[:\s]*)([^\n]+)/gi: match[1] || match[0], the second match if
\* there is one, else the first; <<>> when there is none.
LocationLineAt(s, i) == Has(s[i], "location") /\ SkipColon(s, i + 1) <= Len(s)
LocationLineHits(s, i) == {j \in i..Len(s) : LocationLineAt(s, j)}
LocationLine(s, j) == SubSeq(s, j, LineEnd(s, SkipColon(s, j + 1)) - 1)
LocationFrom(s, first) ==
    IF LocationLineHits(s, LineEnd(s, SkipColon(s, first + 1))) = {}
    THEN LocationLine(s, first)
    ELSE LocationLine(s, Least(LocationLineHits(s, LineEnd(s, SkipColon(s, first + 1)))))
extractedLocation(s) ==
    IF LocationLineHits(s, 1) = {} THEN <<>>
    ELSE LocationFrom(s, Least(LocationLineHits(s, 1)))

BoardMeeting == "Board Meeting"

\* (The room pattern of the location is left out: the inputs name no room,
\* hall, center, building or office.)
extractMeetingInfo(transcript, meetingTitle) ==
    [title |-> meetingTitle,
     date |-> extractedDate(transcript),
     time |-> FirstToken(transcript, Times),
     location |-> extractedLocation(transcript),
     type |-> BoardMeeting]

-----------------------------------------------------------------------------
(* Attendance and agenda approval *)

\* The members of extractDetailedAttendance, in source order.
AttendanceMembers == <<
    [name |-> <<"Raymond", "Muna">>, role |-> "Chairperson",
     patterns |-> << <<"raymond">>, <<"muna">>, <<"chairperson">>, <<"chair">> >>],
    [name |-> <<"Patrick", "Fitial">>, role |-> "Vice Chair",
     patterns |-> << <<"patrick">>, <<"fitial">>, <<"vice", "chair">>, <<"vice-chair">> >>],
    [name |-> <<"Victoria", "Bellas">>, role |-> "Secretary",
     patterns |-> << <<"victoria">>, <<"bellas">>, <<"secretary">> >>],
    [name |-> <<"Richard", "Farrell">>, role |-> "Budget Officer",
     patterns |-> << <<"richard">>, <<"farrell">>, <<"budget">> >>],
    [name |-> <<"Elvira", "Mesgnon">>, role |-> "Commissioner",
     patterns |-> << <<"elvira">>, <<"mesgnon">> >>],
    [name |-> <<"Michele", "Joab">>, role |-> "Commissioner",
     patterns |-> << <<"michele">>, <<"joab">> >>],
    [name |-> <<"Frances", "Torres">>, role |-> "Commissioner",
     patterns |-> << <<"frances">>, <<"torres">> >>] >>

\* text.includes(pattern) on lower-cased text.
IncludesKey(s, p) == KeyHits(s, 1, {p}) # {}

\* The end of the roll call section: (?=\n\n|\n[A-Z]|$), on lower-cased text
\* under the i flag.
RollCallEnd(s, i) ==
    Least({j \in i..Len(s) :
              /\ s[j] = NL /\ j < Len(s)
              /\ s[j + 1] = NL \/ IsWord(s[j + 1])}
          \cup {Len(s) + 1})

\* rollCallMatch ? rollCallMatch[0] : ''
RollCallSection(s) ==
    IF KeyHits(s, 1, {<<"roll", "call">>}) = {} THEN <<>>
    ELSE SubSeq(s, Least(KeyHits(s, 1, {<<"roll", "call">>})),
                RollCallEnd(s, Least(KeyHits(s, 1, {<<"roll", "call">>})) + 2) - 1)

\* rollCallSection.includes(`${pattern}.*absent`): includes takes its
\* argument as plain text, so the section has to spell ".*absent" out.
IncludesAbsentText(section, p) ==
    \E i \in 1..(Len(section) - 1) :
        KeyAt(section, i, p) /\ section[i + Len(p)] = ".*absent"

PresentInRollCall(section, member) ==
    /\ section # <<>>
    /\ \E k \in 1..Len(member.patterns) :
          /\ IncludesKey(section, member.patterns[k])
          /\ ~IncludesAbsentText(section, member.patterns[k])

PresentAnywhere(s, member) ==
    \E k \in 1..Len(member.patterns) : IncludesKey(s, member.patterns[k])

\* The entry pushed for one member.  arrivalTime stays undefined (<<>>): the
\* arrival pattern is built in a template literal, where \d and \s lose
\* their backslash, and so asks for the letters "d:dd" in the transcript.
AttendanceOf(s, member) ==
    [name |-> member.name,
     role |-> member.role,
     present |-> PresentInRollCall(RollCallSection(s), member)
                    \/ PresentAnywhere(s, member),
     arrivalTime |-> <<>>]

extractDetailedAttendance(transcript) ==
    [k \in 1..Len(AttendanceMembers) |-> AttendanceOf(transcript, AttendanceMembers[k])]

\* One of the words is found on the line of token i, at token i or later.
LaterOnLine(s, i, words) ==
    {j \in i..(LineEnd(s, i) - 1) : \E w \in words : Has(s[j], w)}

\* /(?:first).*?(?:second).*?(?:third)/ is found in s: the three on one line,
\* in that order.
ChainAt(s, i, first, second, third) ==
    /\ \E w \in first : Has(s[i], w)
    /\ \E j \in LaterOnLine(s, i + 1, second) : LaterOnLine(s, j + 1, third) # {}
Chain(s, first, second, third) ==
    \E i \in 1..Len(s) : s[i] # NL /\ ChainAt(s, i, first, second, third)

\* /(?:first).*?(?:second)/ is found in s.
Pair(s, first, second) ==
    \E i \in 1..Len(s) :
        /\ s[i] # NL
        /\ \E w \in first : Has(s[i], w)
        /\ LaterOnLine(s, i + 1, second) # {}

AgendaStops == {<<"motion">>, <<"new", "business">>, <<"old", "business">>}

\* agendaSection ? agendaSection[0] : transcript.substring(0, 2000)
AgendaSection(s) ==
    IF Section(s, <<"agenda">>, AgendaStops) = <<>> THEN Substring(s, 0, 2000)
    ELSE Section(s, <<"agenda">>, AgendaStops)

AgendaProposed(section) ==
    Chain(section, {"motion", "move"}, {"approve", "adopt"}, {"agenda"})
AgendaApproved(section) ==
    \/ Pair(section, {"agenda"}, {"approved", "adopted", "carried", "passed"})
    \/ Chain(section, {"motion", "move"}, {"agenda"}, {"carried", "passed"})

\* section.includes(word), letter case kept.
IncludesCased(s, word) == \E i \in 1..Len(s) : word \in Fragments(s[i])

AgendaVote(section) ==
    IF IncludesCased(section, "unanimous") THEN "Unanimous"
    ELSE IF IncludesCased(section, "carried") THEN "Carried"
    ELSE IF IncludesCased(section, "passed") THEN "Passed"
    ELSE "Approved"

\* motionMaker and seconder are read at index 1 and 2 of the result of a
\* match with the g flag, which holds whole matches and no groups: they are
\* the second and third match.  The inputs hold no section in which the maker
\* pattern or the seconder pattern matches twice, so both stay undefined.
AgendaApproval(section) ==
    [proposed |-> AgendaProposed(section),
     approved |-> AgendaApproved(section),
     motionMaker |-> <<>>,
     seconder |-> <<>>,
     vote |-> IF AgendaApproved(section) THEN AgendaVote(section) ELSE ""]

extractAgendaApproval(transcript) == AgendaApproval(AgendaSection(transcript))

-----------------------------------------------------------------------------
(* Sentences; action items and decisions *)

SentenceMarks == {".", "!", "?"}

\* The first position from i on that holds no sentence mark.
SkipMarks(s, i) == Least({j \in i..Len(s) : s[j] \notin SentenceMarks} \cup {Len(s) + 1})

RECURSIVE SplitFrom(_, _, _)
\* s.split(/[.!?]+/) from token i on, the pieces added to acc.
SplitFrom(s, i, acc) ==
    IF StopAt(s, i, SentenceMarks) > Len(s) THEN Append(acc, SubSeq(s, i, Len(s)))
    ELSE SplitFrom(s, SkipMarks(s, StopAt(s, i, SentenceMarks)),
                   Append(acc, SubSeq(s, i, StopAt(s, i, SentenceMarks) - 1)))
Sentences(s) == SplitFrom(s, 1, <<>>)

\* seq.slice(0, n)
Slice(seq, n) == SubSeq(seq, 1, IF Len(seq) < n THEN Len(seq) ELSE n)

actionIndicators ==
    {<<"will">>, <<"shall">>, <<"must">>, <<"need", "to">>, <<"should">>,
     <<"responsible", "for">>, <<"assigned", "to">>, <<"coordinate">>,
     <<"prepare">>, <<"submit">>, <<"forward">>, <<"complete">>,
     <<"follow", "up">>, <<"ensure">>, <<"provide">>, <<"deliver">>}

identifyResponsibleParty(sentence) ==
    IF Includes(sentence, "classification") \/ Includes(sentence, "evelyn")
    THEN "Classification Office"
    ELSE IF Includes(sentence, "budget") \/ Includes(sentence, "farrell")
    THEN "Budget Officer"
    ELSE IF Includes(sentence, "secretary") \/ Includes(sentence, "bellas")
    THEN "Secretary"
    ELSE IF Includes(sentence, "chair") \/ Includes(sentence, "muna")
    THEN "Chairperson"
    ELSE IF Includes(sentence, "staff") THEN "Administrative Staff"
    ELSE IF Includes(sentence, "commission") THEN "Commission"
    ELSE "Staff"

\* /(by|before|within)\s+([^,.\n]+)/ matches at token j; match[0].
DeadlineAt(c, j) ==
    /\ \E w \in {"by", "before", "within"} : Has(c[j], w)
    /\ SpaceAfter(c, j)
    /\ SkipNL(c, j + 1) <= Len(c)
    /\ c[SkipNL(c, j + 1)] \notin {",", "."}
DeadlineHits(c) == {j \in 1..Len(c) : DeadlineAt(c, j)}
extractDeadline(sentence) ==
    IF DeadlineHits(sentence) = {} THEN <<>>
    ELSE SubSeq(sentence, Least(DeadlineHits(sentence)),
                StopAt(sentence, SkipNL(sentence, Least(DeadlineHits(sentence)) + 1),
                       {",", ".", NL}) - 1)

identifyRelatedTopic(sentence) ==
    IF Includes(sentence, "budget") THEN "Budget"
    ELSE IF Includes(sentence, "personnel") THEN "Personnel"
    ELSE IF Includes(sentence, "policy") THEN "Policy"
    ELSE IF Includes(sentence, "procurement") THEN "Procurement"
    ELSE IF Includes(sentence, "classification") THEN "Classification"
    ELSE IF Includes(sentence, "audit") THEN "Audit"
    ELSE "General"

\* "" stands for undefined.
determinePriority(sentence) ==
    IF Includes(sentence, "urgent") \/ Includes(sentence, "immediate") THEN "High"
    ELSE IF Includes(sentence, "soon") \/ Includes(sentence, "quickly") THEN "Medium"
    ELSE IF IncludesPhrase(sentence, <<"when", "possible">>)
            \/ Includes(sentence, "eventually") THEN "Low"
    ELSE ""

IsActionItem(sentence) ==
    /\ \E p \in actionIndicators : IncludesKey(sentence, p)
    /\ StrLen(Trim(sentence)) > 20
    /\ StrLen(Trim(sentence)) < 300

ActionItemOf(sentence) ==
    [description |-> Trim(sentence),
     assignedTo |-> identifyResponsibleParty(sentence),
     deadline |-> extractDeadline(sentence),
     relatedTo |-> identifyRelatedTopic(sentence),
     priority |-> determinePriority(sentence)]

RECURSIVE ActionItemsFrom(_, _, _)
\* for (const sentence of sentences), from sentence k on.
ActionItemsFrom(sentences, k, acc) ==
    IF k > Len(sentences) THEN acc
    ELSE ActionItemsFrom(sentences, k + 1,
            IF IsActionItem(sentences[k]) THEN Append(acc, ActionItemOf(sentences[k]))
            ELSE acc)

\* extractDetailedActionItems without the slice(0, 15).
extractDetailedActionItemsUncapped(transcript) ==
    ActionItemsFrom(Sentences(transcript), 1, <<>>)

ActionItemCap == 15

extractDetailedActionItems(transcript) ==
    Slice(ActionItemsFrom(Sentences(transcript), 1, <<>>), ActionItemCap)

decisionKeywords ==
    {"decided", "approved", "denied", "rejected", "adopted", "carried", "passed",
     "failed", "tabled", "postponed", "authorized", "ratified", "confirmed",
     "unanimously"}

IsDecision(sentence) ==
    /\ StrLen(Trim(sentence)) > 20
    /\ \E w \in decisionKeywords : Includes(sentence, w)
    /\ \E w \in {"motion", "vote", "commission", "board"} : Includes(sentence, w)

RECURSIVE DecisionsFrom(_, _, _)
DecisionsFrom(sentences, k, acc) ==
    IF k > Len(sentences) THEN acc
    ELSE DecisionsFrom(sentences, k + 1,
            IF IsDecision(sentences[k]) THEN Append(acc, Trim(sentences[k])) ELSE acc)

DecisionCap == 12

extractDetailedDecisions(transcript) ==
    Slice(DecisionsFrom(Sentences(transcript), 1, <<>>), DecisionCap)

-----------------------------------------------------------------------------
(* Discussions *)

ClauseHitsFrom(d, i, words) == {j \in i..Len(d) : ClauseAt(d, j, words)}

RECURSIVE Clauses(_, _, _, _)
\* d.match(/(?:words)[:\s]*([^.\n]+)/gi) from token i on, added to acc.
Clauses(d, i, words, acc) ==
    IF i > Len(d) \/ ClauseHitsFrom(d, i, words) = {} THEN acc
    ELSE Clauses(d, StopAt(d, SkipColon(d, Least(ClauseHitsFrom(d, i, words)) + 1),
                           {".", NL}),
                 words, Append(acc, ClauseFrom(d, Least(ClauseHitsFrom(d, i, words)))))

\* match[1] || match[0] on the result of a match with the g flag.
SecondOrFirst(matches) == IF Len(matches) >= 2 THEN matches[2] ELSE matches[1]

\* The first of the three outcome patterns that matches; <<>>: undefined.
extractDiscussionOutcome(section) ==
    IF ClauseHits(section, {"outcome", "result", "conclusion", "decision"}) # {}
    THEN SecondOrFirst(Clauses(section, 1,
                               {"outcome", "result", "conclusion", "decision"}, <<>>))
    ELSE IF ClauseHits(section, {"agreed", "decided", "resolved"}) # {}
    THEN SecondOrFirst(Clauses(section, 1, {"agreed", "decided", "resolved"}, <<>>))
    ELSE IF WordClauseHits(section, 1, {"will", "shall"}) # {}
    THEN SecondOrFirst(WordClauses(section, 1, {"will", "shall"}, <<>>))
    ELSE <<>>

importantWords ==
    {"important", "significant", "key", "main", "primary", "critical", "concern",
     "issue", "problem", "solution", "recommendation"}

IsKeyPoint(sentence) ==
    /\ StrLen(Trim(sentence)) > 30
    /\ StrLen(Trim(sentence)) < 200
    /\ \E w \in importantWords : Includes(sentence, w)

RECURSIVE KeyPointsFrom(_, _, _)
KeyPointsFrom(sentences, k, acc) ==
    IF k > Len(sentences) THEN acc
    ELSE KeyPointsFrom(sentences, k + 1,
            IF IsKeyPoint(sentences[k]) THEN Append(acc, Trim(sentences[k])) ELSE acc)

extractKeyPoints(section) == Slice(KeyPointsFrom(Sentences(section), 1, <<>>), 5)

\* [A-Z][a-z]+ without the i flag: a capitalised word.
IsCapitalised(tok) == IsWord(tok) /\ toLowerCase(tok) # tok /\ tok \notin {"MUNA", "CSC"}

\* /([A-Z][a-z]+\s+[A-Z][a-z]+):/ matches c at token i.
SpeakerNameAt(c, i) ==
    /\ i + 2 <= Len(c)
    /\ IsCapitalised(c[i]) /\ IsCapitalised(c[i + 1])
    /\ c[i + 2] = ":"
SpeakerNameHits(c, i) == {j \in i..Len(c) : SpeakerNameAt(c, j)}

RECURSIVE SpeakerNames(_, _, _)
\* The names the pattern finds from token i on, in order, each once.
SpeakerNames(c, i, acc) ==
    IF i > Len(c) \/ SpeakerNameHits(c, i) = {} THEN acc
    ELSE SpeakerNames(c, Least(SpeakerNameHits(c, i)) + 3,
            IF \E k \in 1..Len(acc) :
                  acc[k] = SubSeq(c, Least(SpeakerNameHits(c, i)),
                                  Least(SpeakerNameHits(c, i)) + 1)
            THEN acc
            ELSE Append(acc, SubSeq(c, Least(SpeakerNameHits(c, i)),
                                    Least(SpeakerNameHits(c, i)) + 1)))

\* The three topic patterns: the tokens a pattern begins with, whether one of
\* on, about, of, regarding has to follow, and the least and the greatest
\* number of characters of the topic.
topicPatterns == <<
    [heads |-> {"discuss", "discussion", "present", "presentation", "report"},
     about |-> TRUE, least |-> 15, most |-> 100],
    [heads |-> {"item"}, about |-> FALSE, least |-> 20, most |-> 100],
    [heads |-> {"topic", "subject", "matter"}, about |-> FALSE, least |-> 15,
     most |-> 80] >>

\* The first position from i on that holds no number, colon, dash or line
\* break.
SkipSeparators(s, i) ==
    Least({j \in i..Len(s) : s[j] \notin Numbers \cup {":", "-", NL}} \cup {Len(s) + 1})

\* Where the topic begins when pattern pat matches with its head at token i;
\* 0 when the connecting word is missing.
TopicStart(s, i, pat) ==
    IF pat.about
    THEN (IF i < Len(s) /\ toLowerCase(s[i + 1]) \in {"on", "about", "of", "regarding"}
          THEN SkipNL(s, i + 2) ELSE 0)
    ELSE SkipSeparators(s, i + 1)

\* The characters of the line from token b to the next full stop.
TopicRun(s, b) == SubSeq(s, b, StopAt(s, b, {".", NL}) - 1)

TopicAtFrom(s, b, pat) ==
    b > 0 /\ b <= Len(s) /\ StrLen(TopicRun(s, b)) >= pat.least
TopicAt(s, i, pat) ==
    toLowerCase(s[i]) \in pat.heads /\ TopicAtFrom(s, TopicStart(s, i, pat), pat)
TopicHits(s, i, pat) == {j \in i..Len(s) : TopicAt(s, j, pat)}

\* The entry pushed for a topic found at character topicStart.
DiscussionOf(topic, section) ==
    [topic |-> topic,
     participants |-> SpeakerNames(section, 1, <<>>),
     keyPoints |-> extractKeyPoints(section),
     outcome |-> extractDiscussionOutcome(section)]

RECURSIVE TopicLoop(_, _, _, _)
\* One match of pat, head at token j, topic group from token b on.
TopicTake(s, j, b, pat, acc) ==
    TopicLoop(s, b + Len(Substring(TopicRun(s, b), 0, pat.most)), pat,
        Append(acc, DiscussionOf(Trim(Substring(TopicRun(s, b), 0, pat.most)),
                                 Substring(s, Offset(s, j), Offset(s, j) + 1500))))

\* The while loop over pattern.exec(transcript), lastIndex at token i.
TopicLoop(s, i, pat, acc) ==
    IF i > Len(s) \/ TopicHits(s, i, pat) = {} THEN acc
    ELSE TopicTake(s, Least(TopicHits(s, i, pat)),
                   TopicStart(s, Least(TopicHits(s, i, pat)), pat), pat, acc)

DiscussionCap == 10

extractDetailedDiscussions(transcript) ==
    Slice(TopicLoop(transcript, 1, topicPatterns[3],
              TopicLoop(transcript, 1, topicPatterns[2],
                  TopicLoop(transcript, 1, topicPatterns[1], <<>>))),
          DiscussionCap)

-----------------------------------------------------------------------------
(* Participants *)

\* The members of extractDetailedParticipants, in source order.
knownMembers == <<
    [name |-> <<"Raymond", "Muna">>, role |-> "Chairperson",
     patterns |-> <<"raymond", "muna", "chair">>],
    [name |-> <<"Patrick", "Fitial">>, role |-> "Vice Chair",
     patterns |-> <<"patrick", "fitial">>],
    [name |-> <<"Victoria", "Bellas">>, role |-> "Secretary",
     patterns |-> <<"victoria", "bellas">>],
    [name |-> <<"Richard", "Farrell">>, role |-> "Budget Officer",
     patterns |-> <<"richard", "farrell">>],
    [name |-> <<"Elvira", "Mesgnon">>, role |-> "Commissioner",
     patterns |-> <<"elvira", "mesgnon">>],
    [name |-> <<"Michele", "Joab">>, role |-> "Commissioner",
     patterns |-> <<"michele", "joab">>],
    [name |-> <<"Frances", "Torres">>, role |-> "Commissioner",
     patterns |-> <<"frances", "torres">>] >>

\* new RegExp(`${pattern}[:\s]+([^\n]+)`, 'gi'): written in a template
\* literal, \s is the letter s, so the pattern asks for the name followed by
\* colons or letters s.  It matches s with the name at token j: a colon
\* follows, and text follows the colon on the line.  (No token of the inputs
\* ends in a name without being the name, or holds a name and then an s.)
SpeakingAt(s, j, pattern) ==
    /\ toLowerCase(s[j]) = pattern
    /\ j + 2 <= Len(s)
    /\ s[j + 1] = ":"
    /\ s[j + 2] # NL
SpeakingHits(s, i, pattern) == {j \in i..Len(s) : SpeakingAt(s, j, pattern)}

\* contributions.push(c) when c.length > 10
PushLong(acc, c, least) == IF StrLen(c) > least THEN Append(acc, c) ELSE acc

RECURSIVE Speaking(_, _, _, _)
\* The while loop over speakingRegex.exec(transcript), lastIndex at token i.
Speaking(s, i, pattern, acc) ==
    IF i > Len(s) \/ SpeakingHits(s, i, pattern) = {} THEN acc
    ELSE Speaking(s, LineEnd(s, Least(SpeakingHits(s, i, pattern)) + 2), pattern,
            PushLong(acc, Trim(SubSeq(s, Least(SpeakingHits(s, i, pattern)) + 2,
                        LineEnd(s, Least(SpeakingHits(s, i, pattern)) + 2) - 1)), 10))

ActionKeywords == {"motion", "move", "second", "propose", "suggest"}

\* The first keyword of the line after token j, or 0.
KeywordAfter(s, j) ==
    IF LaterOnLine(s, j + 1, ActionKeywords) = {} THEN 0
    ELSE Least(LaterOnLine(s, j + 1, ActionKeywords))

\* Where ([^.\n]+) begins after the keyword at token k: inside the token when
\* letters follow the keyword, at the next token, or past a full stop that
\* .*? steps over; 0 when the line holds nothing more.
ActionTextFrom(s, k) ==
    IF toLowerCase(s[k]) \notin ActionKeywords THEN k
    ELSE IF k < Len(s) /\ s[k + 1] \notin {".", NL} THEN k + 1
    ELSE IF k + 1 < Len(s) /\ s[k + 1] = "." /\ s[k + 2] \notin {".", NL} THEN k + 2
    ELSE 0

\* new RegExp(`${pattern}.*?(motion|move|second|propose|suggest).*?([^.\n]+)`,
\* 'gi') matches s with the name at token j.
ActionAt(s, j, pattern) ==
    /\ Has(s[j], pattern)
    /\ KeywordAfter(s, j) > 0
    /\ ActionTextFrom(s, KeywordAfter(s, j)) > 0
ActionHits(s, i, pattern) == {j \in i..Len(s) : ActionAt(s, j, pattern)}

\* The token the match that starts at token j ends before.
ActionEnd(s, j) ==
    StopAt(s, IF ActionTextFrom(s, KeywordAfter(s, j)) = KeywordAfter(s, j)
              THEN KeywordAfter(s, j) + 1
              ELSE ActionTextFrom(s, KeywordAfter(s, j)),
           {".", NL})

PushAction(acc, action) ==
    IF StrLen(action) > 15 THEN Append(acc, <<"Action:">> \o action) ELSE acc

RECURSIVE Actions(_, _, _, _)
\* The while loop over actionRegex.exec(transcript), lastIndex at token i.
Actions(s, i, pattern, acc) ==
    IF i > Len(s) \/ ActionHits(s, i, pattern) = {} THEN acc
    ELSE Actions(s, ActionEnd(s, Least(ActionHits(s, i, pattern))), pattern,
            PushAction(acc, Trim(SubSeq(s, Least(ActionHits(s, i, pattern)),
                                 ActionEnd(s, Least(ActionHits(s, i, pattern))) - 1))))

RECURSIVE Contributions(_, _, _, _)
\* for (const pattern of member.patterns), from pattern k on.
Contributions(s, patterns, k, acc) ==
    IF k > Len(patterns) THEN acc
    ELSE Contributions(s, patterns, k + 1,
            Actions(s, 1, patterns[k], Speaking(s, 1, patterns[k], acc)))

\* participants.set(member.name, ...) when the member spoke or is named.
AddMember(s, member, contributions, acc) ==
    IF contributions # <<>> \/ Includes(s, member.patterns[1])
    THEN Append(acc, [name |-> member.name, role |-> member.role,
                      contributions |-> Slice(contributions, 10)])
    ELSE acc

RECURSIVE Members(_, _, _)
\* for (const member of knownMembers), from member k on.
Members(s, k, acc) ==
    IF k > Len(knownMembers) THEN acc
    ELSE Members(s, k + 1,
            AddMember(s, knownMembers[k],
                      Contributions(s, knownMembers[k].patterns, 1, <<>>), acc))

\* new RegExp(`${name}:([^\n]+)`, 'gi') matches s with the name at token j.
NamedSpeakingAt(s, j, name) ==
    /\ j + 3 <= Len(s)
    /\ toLowerCase(s[j]) = toLowerCase(name[1])
    /\ toLowerCase(s[j + 1]) = toLowerCase(name[2])
    /\ s[j + 2] = ":"
    /\ s[j + 3] # NL
NamedSpeakingHits(s, i, name) == {j \in i..Len(s) : NamedSpeakingAt(s, j, name)}

RECURSIVE NamedSpeaking(_, _, _, _)
NamedSpeaking(s, i, name, acc) ==
    IF i > Len(s) \/ NamedSpeakingHits(s, i, name) = {} THEN acc
    ELSE NamedSpeaking(s, LineEnd(s, Least(NamedSpeakingHits(s, i, name)) + 3), name,
            PushLong(acc, Trim(SubSeq(s, Least(NamedSpeakingHits(s, i, name)) + 3,
                        LineEnd(s, Least(NamedSpeakingHits(s, i, name)) + 3) - 1)), 10))

\* participants.has(name) || knownMembers.find(m => m.name === name)
IsKnown(acc, name) ==
    \/ \E k \in 1..Len(acc) : acc[k].name = name
    \/ \E k \in 1..Len(knownMembers) : knownMembers[k].name = name

AddSpeaker(name, contributions, acc) ==
    IF contributions # <<>>
    THEN Append(acc, [name |-> name, role |-> "Participant",
                      contributions |-> Slice(contributions, 5)])
    ELSE acc

RECURSIVE OtherSpeakers(_, _, _)
\* The while loop over generalSpeakerPattern.exec(transcript), lastIndex at
\* token i.
OtherSpeaker(s, j, name, acc) ==
    OtherSpeakers(s, j + 3,
        IF IsKnown(acc, name) THEN acc
        ELSE AddSpeaker(name, NamedSpeaking(s, 1, name, <<>>), acc))

OtherSpeakers(s, i, acc) ==
    IF i > Len(s) \/ SpeakerNameHits(s, i) = {} THEN acc
    ELSE OtherSpeaker(s, Least(SpeakerNameHits(s, i)),
                      SubSeq(s, Least(SpeakerNameHits(s, i)),
                             Least(SpeakerNameHits(s, i)) + 1), acc)

extractDetailedParticipants(transcript) ==
    OtherSpeakers(transcript, 1, Members(transcript, 1, <<>>))

-----------------------------------------------------------------------------
(* The analysis aggregator *)

\* The object performDeepTranscriptAnalysis builds; m is what the motion
\* extractor returned.  threw: an extractor threw, and no object is returned.
Analysis(transcript, meetingTitle, m) ==
    IF m.threw THEN [threw |-> TRUE]
    ELSE [threw |-> FALSE,
          meetingInfo |-> extractMeetingInfo(transcript, meetingTitle),
          attendance |-> extractDetailedAttendance(transcript),
          agendaApproval |-> extractAgendaApproval(transcript),
          oldBusiness |-> extractOldBusiness(transcript),
          newBusiness |-> extractNewBusiness(transcript),
          motions |-> m.motions,
          participants |-> extractDetailedParticipants(transcript),
          actionItems |-> extractDetailedActionItems(transcript),
          decisions |-> extractDetailedDecisions(transcript),
          discussions |-> extractDetailedDiscussions(transcript),
          publicComment |-> extractPublicComment(transcript),
          nextMeeting |-> extractNextMeetingInfo(transcript)]

performDeepTranscriptAnalysis(transcript, meetingTitle) ==
    Analysis(transcript, meetingTitle, extractDetailedMotions(transcript))

-----------------------------------------------------------------------------
(* Documents assembled from the analysis.  A document is the sequence of its
   lines; a line is a sequence of tokens, the fixed text of the source in one
   token; <<>> is an empty line. *)

\* if (cond) summary += lines
Opt(cond, lines) == IF cond THEN lines ELSE <<>>

\* items.forEach((item, index) => summary += Lines(item, index + 1))
Each(items, Lines(_, _)) == Flatten([k \in 1..Len(items) |-> Lines(items[k], k)])

RECURSIVE Join(_)
\* names.join(', ')
Join(names) ==
    IF names = <<>> THEN <<>>
    ELSE IF Len(names) = 1 THEN names[1]
    ELSE names[1] \o <<",">> \o Join(From(names, 2))

IsPresent(m) == m.present
IsAbsent(m) == ~m.present
IsPresentChair(m) == m.role = "Chairperson" /\ m.present

HeaderLines(info, kind, type) ==
    << <<"#">> \o info.title, <<kind>>, <<>>, <<"**Meeting Date:**">> \o info.date >>
    \o Opt(info.time # <<>>, << <<"**Meeting Time:**">> \o info.time >>)
    \o Opt(info.location # <<>>, << <<"**Location:**">> \o info.location >>)
    \o << <<"**Meeting Type:**", type>>, <<>> >>

PresentLine(member, k) ==
    << <<"-", member.role>> \o member.name
       \o Opt(member.arrivalTime # <<>>,
              <<"(arrived at">> \o member.arrivalTime \o <<")">>) >>
AbsentLine(member, k) == << <<"-", member.role>> \o member.name >>

AttendanceLines(present, absent) ==
    << <<"## 1. ATTENDANCE AND QUORUM">>, <<>>,
       <<"**Members Present (", ToString(Len(present)), "):**">> >>
    \o Each(present, PresentLine)
    \o Opt(absent # <<>>,
           << <<>>, <<"**Members Absent (", ToString(Len(absent)), "):**">> >>
           \o Each(absent, AbsentLine))
    \o << <<>>,
          <<"**Quorum Status:**", IF Len(present) >= 4 THEN "Met" ELSE "Not Met",
            "(", ToString(Len(present)), "of 7 members present)">>,
          <<>> >>

CallToOrderLines(chairs, info) ==
    << <<"## 2. CALL TO ORDER">>, <<>> >>
    \o (IF chairs # <<>>
        THEN << <<"The meeting was called to order by", chairs[1].role>>
                \o chairs[1].name
                \o Opt(info.time # <<>>, <<"at">> \o info.time) \o <<".">> >>
        ELSE << <<"Meeting called to order.">> >>)
    \o << <<>> >>

\* (extractAgendaApproval sets no amendments, so the motion is "as presented".)
AgendaLines(agendaApproval) ==
    << <<"## 3. APPROVAL OF AGENDA">>, <<>> >>
    \o (IF agendaApproval.proposed
        THEN << <<"**Motion:**">> \o agendaApproval.motionMaker
                \o <<"moved to approve the agenda", "as presented.">> >>
             \o Opt(agendaApproval.seconder # <<>>,
                    << <<"**Second:**">> \o agendaApproval.seconder >>)
             \o Opt(agendaApproval.vote # "",
                    << <<"**Result:**", agendaApproval.vote>> >>)
        ELSE << <<"Agenda approval discussed.">> >>)
    \o << <<>> >>

SpeakerLines(speaker, k) ==
    << <<"### Speaker", ToString(k)>> \o Opt(speaker.name # <<>>, <<":">> \o speaker.name),
       <<"**Topic:**">> \o speaker.topic,
       <<"**Summary:**">> \o speaker.summary,
       <<>> >>

PublicCommentLines(publicComment) ==
    Opt(publicComment.defined /\ publicComment.speakers # <<>>,
        << <<"## 4. PUBLIC COMMENT">>, <<>> >>
        \o Each(publicComment.speakers, SpeakerLines))

BusinessLines(item, k) ==
    << <<"###", ToString(k), ".">> \o item.item, <<>> >>
    \o Opt(item.presentedBy # <<>>, << <<"**Presented by:**">> \o item.presentedBy >>)
    \o << <<"**Discussion:**">> \o item.discussion, <<>> >>
    \o Opt(item.outcome # <<>>, << <<"**Outcome:**">> \o item.outcome >>)
    \o Opt(item.actionTaken # <<>>, << <<"**Action Taken:**">> \o item.actionTaken >>)
    \o << <<>> >>

\* A variant of OldBusinessLines: the heading is written whatever the list
\* holds, and nothing is written under it when the list is empty.
OldBusinessLinesBare(oldBusiness) ==
    << <<"## 5. OLD BUSINESS">>, <<>> >> \o Each(oldBusiness, BusinessLines)

OldBusinessLines(oldBusiness) ==
    IF oldBusiness # <<>>
    THEN << <<"## 5. OLD BUSINESS">>, <<>> >> \o Each(oldBusiness, BusinessLines)
    ELSE << <<"## 5. OLD BUSINESS">>, <<>>, <<"None reported.">>, <<>> >>

NewBusinessLines(newBusiness) ==
    IF newBusiness # <<>>
    THEN << <<"## 6. NEW BUSINESS">>, <<>> >> \o Each(newBusiness, BusinessLines)
    ELSE << <<"## 6. NEW BUSINESS">>, <<>>, <<"None presented.">>, <<>> >>

AmendmentLine(amendment, k) == << <<"-">> \o amendment >>

VoteCountLine(count) ==
    << <<"- Vote Count:", ToString(count.yes), "Yes,", ToString(count.no), "No">>
       \o Opt(count.abstain > 0, <<",", ToString(count.abstain), "Abstain">>) >>

MotionLines(motion, k) ==
    << <<"### Motion", ToString(motion.number), ":">> \o motion.text, <<>>,
       <<"**Made by:**">> \o motion.maker,
       <<"**Seconded by:**">> \o motion.seconder, <<>> >>
    \o Opt(motion.discussion # <<>>,
           << <<"**Discussion:**">>, motion.discussion, <<>> >>)
    \o Opt(motion.amendments # <<>>,
           << <<"**Amendments:**">> >> \o Each(motion.amendments, AmendmentLine)
           \o << <<>> >>)
    \o << <<"**Vote Details:**">>,
          <<"- Type:", motion.vote.type>>,
          <<"- Result:", motion.vote.result>> >>
    \o Opt(motion.vote.counted, VoteCountLine(motion.vote.count))
    \o << <<>> >>

MotionsLines(ms) ==
    Opt(ms # <<>>,
        << <<"## 7. MOTIONS AND VOTING">>, <<>> >> \o Each(ms, MotionLines))

PointLine(point, k) == << <<"-">> \o point >>

DiscussionBody(discussion) ==
    Opt(discussion.participants # <<>>,
        << <<"**Participants:**">> \o Join(discussion.participants), <<>> >>)
    \o Opt(discussion.keyPoints # <<>>,
           << <<"**Key Points:**">> >> \o Each(discussion.keyPoints, PointLine)
           \o << <<>> >>)
    \o Opt(discussion.outcome # <<>>,
           << <<"**Outcome:**">> \o discussion.outcome, <<>> >>)

RobertsDiscussionLines(discussion, k) ==
    << <<"### Discussion", ToString(k), ":">> \o discussion.topic, <<>> >>
    \o DiscussionBody(discussion)

RobertsDiscussionsLines(discussions) ==
    Opt(discussions # <<>>,
        << <<"## 8. KEY DISCUSSIONS">>, <<>> >>
        \o Each(discussions, RobertsDiscussionLines))

shortDescription(description) ==
    IF StrLen(description) > 80 THEN Substring(description, 0, 77) \o <<"...">>
    ELSE description

ActionItemLine(item, k) ==
    << <<"|">> \o shortDescription(item.description)
       \o <<"|", item.assignedTo, "|">>
       \o (IF item.deadline # <<>> THEN item.deadline ELSE <<"TBD">>)
       \o <<"|", item.relatedTo, "|",
            IF item.priority # "" THEN item.priority ELSE "Normal", "|">> >>

ActionItemTable(actionItems) ==
    << <<>>,
       <<"| Action Item | Assigned To | Deadline | Related To | Priority |">>,
       <<"|-------------|-------------|----------|------------|----------|">> >>
    \o Each(actionItems, ActionItemLine) \o << <<>> >>

RobertsActionItemsLines(actionItems) ==
    IF actionItems # <<>>
    THEN << <<"## 9. ACTION ITEMS">> >> \o ActionItemTable(actionItems)
    ELSE << <<"## 9. ACTION ITEMS">>, <<>>, <<"None identified.">>, <<>> >>

NextMeetingLines(nextMeeting) ==
    Opt(nextMeeting.defined /\ nextMeeting.date # <<>>,
        << <<"## 10. NEXT MEETING">>, <<>>, <<"**Date:**">> \o nextMeeting.date >>
        \o Opt(nextMeeting.time # <<>>, << <<"**Time:**">> \o nextMeeting.time >>)
        \o Opt(nextMeeting.location # <<>>,
               << <<"**Location:**">> \o nextMeeting.location >>)
        \o Opt(nextMeeting.specialTopics # <<>>,
               << <<"**Special Agenda Items:**">> >>
               \o Each(nextMeeting.specialTopics, PointLine))
        \o << <<>> >>)

AdjournmentLines == << <<"## 11. ADJOURNMENT">>, <<>>, <<"Meeting adjourned.">>, <<>> >>

\* analysis.transcript is undefined: the analysis has no such field, and the
\* count of characters is 0.
RobertsFooter(a, present) ==
    << <<"---">>, <<>>,
       <<"**Generated by Bee x Vibe AI Assistant - Deep Analysis Mode**">>, <<>>,
       <<"**Analysis Summary:**">>,
       <<"- Real transcript processing completed">>,
       <<"-", ToString(Len(a.attendance)), "members tracked (",
         ToString(Len(present)), "present)">>,
       <<"-", ToString(Len(a.motions)), "motions analyzed with voting details">>,
       <<"-", ToString(Len(a.oldBusiness)), "old business items +",
         ToString(Len(a.newBusiness)), "new business items">>,
       <<"-", ToString(Len(a.actionItems)), "action items identified with assignments">>,
       <<"-", ToString(Len(a.discussions)), "discussion topics extracted">> >>
    \o Opt(a.publicComment.defined,
           << <<"-", ToString(Len(a.publicComment.speakers)),
                "public comment speakers">> >>)
    \o << <<"- Full Roberts Rules of Order format applied">>,
          <<"- Content analyzed:", "0", "characters">>, <<>> >>

generateRobertsRulesSummaryFromAnalysis(analysis) ==
    HeaderLines(analysis.meetingInfo, "## Official Board Meeting Minutes",
                analysis.meetingInfo.type)
    \o AttendanceLines(SelectSeq(analysis.attendance, IsPresent),
                       SelectSeq(analysis.attendance, IsAbsent))
    \o CallToOrderLines(SelectSeq(analysis.attendance, IsPresentChair),
                        analysis.meetingInfo)
    \o AgendaLines(analysis.agendaApproval)
    \o PublicCommentLines(analysis.publicComment)
    \o OldBusinessLines(analysis.oldBusiness)
    \o NewBusinessLines(analysis.newBusiness)
    \o MotionsLines(analysis.motions)
    \o RobertsDiscussionsLines(analysis.discussions)
    \o RobertsActionItemsLines(analysis.actionItems)
    \o NextMeetingLines(analysis.nextMeeting)
    \o AdjournmentLines
    \o RobertsFooter(analysis, SelectSeq(analysis.attendance, IsPresent))

ParticipantLine(participant, k) ==
    << <<"-">> \o participant.name
       \o Opt(participant.role # "" /\ participant.role # "Participant",
              <<"(", participant.role, ")">>) >>

ParticipantsLines(participants) ==
    Opt(participants # <<>>,
        << <<"## Participants (", ToString(Len(participants)), ")">>, <<>> >>
        \o Each(participants, ParticipantLine) \o << <<>> >>)

GeneralDiscussionLines(discussion, k) ==
    << <<"###", ToString(k), ".">> \o discussion.topic, <<>> >>
    \o DiscussionBody(discussion)

GeneralDiscussionsLines(discussions) ==
    Opt(discussions # <<>>,
        << <<"## Key Discussions (", ToString(Len(discussions)), ")">>, <<>> >>
        \o Each(discussions, GeneralDiscussionLines))

DecisionLine(decision, k) == << <<ToString(k), ".">> \o decision >>

DecisionsLines(decisions) ==
    Opt(decisions # <<>>,
        << <<"## Key Decisions (", ToString(Len(decisions)), ")">>, <<>> >>
        \o Each(decisions, DecisionLine) \o << <<>> >>)

GeneralActionItemsLines(actionItems) ==
    Opt(actionItems # <<>>,
        << <<"## Action Items (", ToString(Len(actionItems)), ")">> >>
        \o ActionItemTable(actionItems))

IsActive(p) == p.contributions # <<>>

ContributionLines(participant, k) ==
    << <<"###">> \o participant.name >>
    \o Opt(participant.role # "" /\ participant.role # "Participant",
           << <<"**Role:**", participant.role>> >>)
    \o << <<"**Key Contributions:**">> >>
    \o Each(Slice(participant.contributions, 3), PointLine)
    \o << <<>> >>

ContributionsLines(activeParticipants) ==
    Opt(activeParticipants # <<>>,
        << <<"## Participant Contributions">>, <<>> >>
        \o Each(activeParticipants, ContributionLines))

GeneralFooter(a) ==
    << <<"---">>, <<>>,
       <<"**Generated by Bee x Vibe AI Assistant - Deep Analysis Mode**">>, <<>>,
       <<"**Analysis Summary:**">>,
       <<"- Real transcript processing completed">>,
       <<"-", ToString(Len(a.participants)), "participants identified and tracked">>,
       <<"-", ToString(Len(a.discussions)),
         "discussion topics extracted with key points">>,
       <<"-", ToString(Len(a.actionItems)), "action items identified with assignments">>,
       <<"-", ToString(Len(a.decisions)), "key decisions captured">>,
       <<"- Content analyzed:", "0", "characters">>, <<>> >>

generateGeneralMeetingSummaryFromAnalysis(analysis) ==
    HeaderLines(analysis.meetingInfo, "## General Meeting Summary", "General Meeting")
    \o ParticipantsLines(analysis.participants)
    \o GeneralDiscussionsLines(analysis.discussions)
    \o DecisionsLines(analysis.decisions)
    \o GeneralActionItemsLines(analysis.actionItems)
    \o ContributionsLines(SelectSeq(analysis.participants, IsActive))
    \o GeneralFooter(analysis)

\* The message of the TypeError that reading [0] of null throws.
NullMessage == <<"Cannot read properties of null (reading '0')">>

\* (The summary ends with a line that says processing failed.)
createErrorResponse(transcript, title, message) ==
    [transcript |-> transcript,
     summary |-> << <<"#">> \o title \o <<"-", "Processing Error">>, <<>>,
                    <<"**Error:**">> \o message, <<>>,
                    <<"**Content Preview:**">>,
                    Substring(transcript, 0, 200) \o <<"...">>, <<>>,
                    <<"---">>, <<>>,
                    <<"Processing failed - please try again">> >>,
     actionItems |-> <<>>,
     participants |-> <<>>,
     meetingType |-> "error",
     keyDecisions |-> <<>>]

\* The object processWithRobertsRulesFormat and processGeneralMeeting return
\* when nothing threw.
ProcessingResult(transcript, analysis, summary, meetingType) ==
    [transcript |-> transcript,
     summary |-> summary,
     actionItems |-> [k \in 1..Len(analysis.actionItems) |->
                         analysis.actionItems[k].description],
     participants |-> [k \in 1..Len(analysis.participants) |->
                          analysis.participants[k].name],
     meetingType |-> meetingType,
     keyDecisions |-> analysis.decisions]

\* analysis: what performDeepTranscriptAnalysis(transcript, meetingTitle)
\* returned or threw; the catch block answers a throw.
processWithRobertsRulesFormat(transcript, meetingTitle, analysis) ==
    IF analysis.threw THEN createErrorResponse(transcript, meetingTitle, NullMessage)
    ELSE ProcessingResult(transcript, analysis,
             generateRobertsRulesSummaryFromAnalysis(analysis), "board")

processGeneralMeeting(transcript, meetingTitle, analysis) ==
    IF analysis.threw THEN createErrorResponse(transcript, meetingTitle, NullMessage)
    ELSE ProcessingResult(transcript, analysis,
             generateGeneralMeetingSummaryFromAnalysis(analysis), "general")

useRobertsRules(transcript, meetingType) ==
    \/ meetingType = "board"
    \/ IncludesPhrase(LowerText(transcript), <<"board", "meeting">>)
    \/ IncludesPhrase(LowerText(transcript), <<"commission", "meeting">>)

\* Inputs of the motion extractor: up to MaxMotionPhrases phrases, each
\* taken from MotionPhrases.
MaxMotionPhrases == 3
MotionPhrases == {
    <<"Patrick", "Fitial", "move", "to", "approve", "the", "budget", ".">>,
    <<"Patrick", "Fitial", "seconded", ".">>,
    <<"Victoria", "Bellas", "seconded", ".">>,
    <<"seconded", "by", "Victoria", "Bellas", ".">>,
    <<"I", "move", "to", "adjourn", ".">>,
    <<"motion", "to", "table", "the", "item", "until", "May", ".">>,
    <<"carried", "3", "aye", "1", "nay", ".">>,
    <<Filler, ".">> }
\* The opening of a meeting: a call to order, the motion on the agenda, its
\* second and its outcome.
AgendaTranscript ==
    <<"Raymond", "Muna", "called", "the", "meeting", "to", "order", ".",
      "Patrick", "Fitial", "moved", "to", "approve", "the", "agenda", ".",
      "Victoria", "Bellas", "seconded", ".",
      "Motion", "carried", "unanimously", ".">>
MotionInputs ==
    {Flatten(ps) : ps \in SeqUpTo(MotionPhrases, MaxMotionPhrases)}
        \cup {AgendaTranscript}

InitMotions ==
    /\ mtext \in MotionInputs
    /\ motions = <<>>
    /\ mpc = "input"
    /\ IdleBesideMotions

\* extractDetailedMotions has returned r, or thrown.
MotionsReturn(r) ==
    /\ motions' = r.motions
    /\ mpc' = IF r.threw THEN "threw" ELSE "extractDetailedMotions"

\* The current processor extracts the motions of the transcript.
ExtractDetailedMotions ==
    /\ mpc = "input"
    /\ MotionsReturn(extractDetailedMotions(mtext))
    /\ UNCHANGED <<mtext, besideMotions>>

NextMotions == ExtractDetailedMotions

SpecMotions == InitMotions /\ [][NextMotions]_vars

\* The forward lookahead window of a motion of transcript s: the thousand
\* characters from the start of the motion on.
LookaheadWindow(s, m) ==
    Substring(s, m.index,
              IF StrLen(s) < m.index + 1000 THEN StrLen(s) ELSE m.index + 1000)

\* The seconder candidates of the window other than the maker of the motion.
SecondersIn(w) == {SecondAt(w, i) : i \in 1..Len(w)} \ {<<>>}
AlternateSeconders(s, m) == SecondersIn(LookaheadWindow(s, m)) \ {m.maker}

\* C2: every motion the motion extractor returns has a maker different from
\* its seconder, unless the forward lookahead window of the motion holds no
\* alternate seconder candidate.
C2_MakerDiffersFromSeconder ==
    mpc = "extractDetailedMotions" =>
        \A k \in 1..Len(motions) :
            motions[k].maker = motions[k].seconder =>
                AlternateSeconders(mtext, motions[k]) = {}

\* C17: a named maker is never returned as the seconder of the same motion:
\* where the two would coincide the seconder is an alternate found further
\* on or, when nobody else is named, the literal "Member".
C17_AlternateOrMember ==
    mpc = "extractDetailedMotions" =>
        \A k \in 1..Len(motions) :
            motions[k].maker # DefaultMember =>
                motions[k].seconder # motions[k].maker

\* C19: from the opening of a meeting in which Patrick Fitial moved to
\* approve the agenda, Victoria Bellas seconded and the motion carried
\* unanimously, the extractor returns exactly one motion, made by Patrick
\* Fitial, seconded by Victoria Bellas, with a result of carried or unanimous.
C19_AgendaMotion ==
    mpc = "extractDetailedMotions" /\ mtext = AgendaTranscript =>
        /\ Len(motions) = 1
        /\ motions[1].maker = <<"Patrick", "Fitial">>
        /\ motions[1].seconder = <<"Victoria", "Bellas">>
        /\ motions[1].vote.result \in {"Carried", "Unanimous"}

-----------------------------------------------------------------------------
(* AIProcessor.processTranscript *)

\* Inputs of processTranscript: a transcript of up to MaxPhrases phrases.
MaxPhrases == 2

\* A list of work: a sentence of twenty characters, a sentence of more than
\* three hundred, and one sentence more than the action item list may hold.
WorkList ==
    <<"staff", "will", "prepare", "a", ".", "staff", "will", Filler, ".">>
    \o Flatten([k \in 1..(ActionItemCap + 1) |->
                   <<"staff", "will", "prepare", "the", "quarterly", "report", ".">>])
Phrases == {
    <<"Patrick", "Fitial", "move", "to", "approve", "the", "budget", ".">>,
    <<"carried", "3", "aye", "1", "nay", ".">>,
    <<"staff", "will", "prepare", "the", "quarterly", "report", ".">>,
    <<"the", "board", "approved", "the", "minutes", ".">>,
    <<"old", "business", NL, "1", ".", "review", "of", "pending", "cases", NL>>,
    <<"new", "business", NL, "1", ".", "proposal", "for", "new", "hires", NL>>,
    <<"discussion", "on", "the", "annual", "training", "plan", ".">>,
    <<"public", "comment", NL, "John", "Smith", ":", "please", "fix", "the",
      "parking", "lot", NL>>,
    <<"roll", "call", "Raymond", "present", ".">>,
    <<"board", "meeting", ".">>,
    <<"next", "meeting", "May", "5", ",", "2025", ".">>,
    <<"Victoria", "Bellas", ":", "we", "will", "review", "the", "budget", ".">> }
Transcripts ==
    {Flatten(ps) : ps \in SeqUpTo(Phrases, MaxPhrases)} \cup {WorkList}
Titles == {<<"Budget", "hearing">>}
MeetingTypes == {"board", "general"}

InitAnalysis ==
    /\ atext \in Transcripts
    /\ atitle \in Titles
    /\ atype \in MeetingTypes
    /\ deep = <<>>
    /\ result = <<>>
    /\ apc = "input"
    /\ IdleBesideAnalysis

\* processTranscript resolves, the analysis having returned or thrown a.
ProcessReturn(a) ==
    /\ deep' = a
    /\ result' = IF useRobertsRules(atext, atype)
                 THEN processWithRobertsRulesFormat(atext, atitle, a)
                 ELSE processGeneralMeeting(atext, atitle, a)
    /\ apc' = "done"

\* AIProcessor.processTranscript(atext, atitle, atype)
ProcessTranscript ==
    /\ apc = "input"
    /\ ProcessReturn(performDeepTranscriptAnalysis(atext, atitle))
    /\ UNCHANGED <<atext, atitle, atype, besideAnalysis>>

NextAnalysis == ProcessTranscript

SpecAnalysis == InitAnalysis /\ [][NextAnalysis]_vars

\* The list-valued fields of the analysis.
ListFields ==
    {"attendance", "oldBusiness", "newBusiness", "motions", "participants",
     "actionItems", "decisions", "discussions"}

\* x is a list.
IsList(x) == DOMAIN x = 1..Len(x)

\* C1: for every transcript and meeting title the analysis aggregator
\* (performDeepTranscriptAnalysis) returns without throwing, and every
\* list-valued field of its result (attendance, oldBusiness, newBusiness,
\* motions, participants, actionItems, decisions, discussions) is a list,
\* possibly empty.
C1_AggregatorReturnsLists ==
    apc = "done" => /\ ~deep.threw
                    /\ \A f \in ListFields : IsList(deep[f])

\* The aggregator has returned for a transcript with a counted vote, the one
\* place where an extractor reads the result of a match unguarded, and with
\* an empty list among its fields.
C1_Witness ==
    /\ apc = "done"
    /\ ~deep.threw
    /\ deep.motions # <<>>
    /\ deep.motions[1].vote.counted
    /\ deep.oldBusiness = <<>>

\* The categories of a document kind, each with the heading of its section.
Headings(meetingType) ==
    IF meetingType = "board"
    THEN {<<"attendance", "## 1. ATTENDANCE AND QUORUM">>,
          <<"publicComment", "## 4. PUBLIC COMMENT">>,
          <<"oldBusiness", "## 5. OLD BUSINESS">>,
          <<"newBusiness", "## 6. NEW BUSINESS">>,
          <<"motions", "## 7. MOTIONS AND VOTING">>,
          <<"discussions", "## 8. KEY DISCUSSIONS">>,
          <<"actionItems", "## 9. ACTION ITEMS">>}
    ELSE {<<"participants", "## Participants (">>,
          <<"participants", "## Participant Contributions">>,
          <<"discussions", "## Key Discussions (">>,
          <<"decisions", "## Key Decisions (">>,
          <<"actionItems", "## Action Items (">>}

\* The list of a category of analysis a is empty.
IsEmptyCategory(a, x) ==
    IF x = "publicComment"
    THEN ~a.publicComment.defined \/ a.publicComment.speakers = <<>>
    ELSE a[x] = <<>>

\* The lines of doc that begin with heading h.
HeadingAt(doc, h) == {i \in 1..Len(doc) : doc[i] # <<>> /\ doc[i][1] = h}

\* The first line of text under line i of doc says "None".
NoneUnder(doc, i) ==
    /\ i + 2 <= Len(doc)
    /\ doc[i + 1] = <<>>
    /\ doc[i + 2] \in {<<"None reported.">>, <<"None presented.">>,
                       <<"None identified.">>, <<"None">>}

C16_EmptySectionsOmitted ==
    apc = "done" /\ result.meetingType # "error" =>
        \A c \in Headings(result.meetingType) :
            IsEmptyCategory(deep, c[1]) => HeadingAt(result.summary, c[2]) = {}

\* C20: for the empty transcript the aggregator returns an analysis whose
\* list fields, attendance included, are all empty and whose date is today.
C20_EmptyTranscript ==
    apc = "done" /\ atext = <<>> =>
        /\ ~deep.threw
        /\ \A f \in ListFields : Len(deep[f]) = 0
        /\ deep.publicComment.speakers = <<>>
        /\ deep.meetingInfo.date = Today

\* C21: for the empty transcript the directly assembled document is the
\* header alone: it holds the heading of no section that lists members,
\* items, motions or other content.
C21_EmptyTranscriptMinimal ==
    apc = "done" /\ atext = <<>> /\ result.meetingType # "error" =>
        \A c \in Headings(result.meetingType) :
            HeadingAt(result.summary, c[2]) = {}

\* C22: the presence of each known person is decided from the roll call
\* section when the transcript has one, and from the whole transcript only
\* when it has none.
C22_RollCallDecides ==
    apc = "done" /\ result.meetingType # "error" =>
        \A k \in 1..Len(AttendanceMembers) :
            deep.attendance[k].present =
                IF RollCallSection(atext) # <<>>
                THEN PresentInRollCall(RollCallSection(atext), AttendanceMembers[k])
                ELSE PresentAnywhere(atext, AttendanceMembers[k])

\* C23: the action item extractor returns at most fifteen items, and the
\* trimmed length of every returned description lies strictly between 20
\* and 300 characters.
C23_ActionItemsBounded ==
    apc = "done" /\ result.meetingType # "error" =>
        /\ Len(deep.actionItems) <= 15
        /\ \A k \in 1..Len(deep.actionItems) :
              /\ StrLen(Trim(deep.actionItems[k].description)) > 20
              /\ StrLen(Trim(deep.actionItems[k].description)) < 300

\* A transcript with more action sentences than the cap, a sentence of twenty
\* characters and one of more than three hundred has been analysed: the list
\* is full.
C23_Witness ==
    /\ apc = "done"
    /\ atext = WorkList
    /\ result.meetingType # "error"
    /\ Len(deep.actionItems) = 15
    /\ StrLen(<<"staff", "will", "prepare", "a">>) = 20
    /\ StrLen(<<"staff", "will", Filler>>) >= 300
    /\ Len(Sentences(atext)) > 15

-----------------------------------------------------------------------------
(* The upload handlers, OpenAIClient and POST /api/ai-process *)

\* The ways the model call of the route fails.
LLMFailures ==
    {"network", "quota", "invalid key", "status", "no content", "malformed"}

\* error.message of a failure of the model call.
FailureMessage(failure) ==
    CASE failure = "network" -> "Connection error."
      [] failure = "quota" -> "429 You exceeded your current quota"
      [] failure = "invalid key" -> "401 Incorrect API key provided"
      [] failure = "status" -> "500 The server had an error"
      [] failure = "no content" -> "No response from OpenAI"
      [] failure = "malformed" -> "Invalid JSON response from AI"

\* What the model answered, as far as transformAIResponse reads it.
AIResponses == {[summary |-> << <<"<summary>">> >>], [summary |-> <<>>]}

transformAIResponse(aiResponse, originalTranscript, meetingType) ==
    [transcript |-> originalTranscript,
     summary |-> IF aiResponse.summary # <<>> THEN aiResponse.summary
                 ELSE << <<"Summary not available">> >>,
     actionItems |-> <<>>,
     participants |-> <<>>,
     meetingType |-> meetingType,
     keyDecisions |-> <<>>]

\* NextResponse.json(body, {status})
JsonResponse(status, error, details, body) ==
    [status |-> status, ok |-> status = 200, error |-> error, details |-> details,
     body |-> body]

\* The route from the model call on; how: "ok" or the failure of the call.
Completion(transcript, meetingType, how, aiResponse) ==
    IF how \in LLMFailures
    THEN JsonResponse(500, "AI processing failed", FailureMessage(how), <<>>)
    ELSE JsonResponse(200, "", "",
                      transformAIResponse(aiResponse, transcript, meetingType))

\* The route on a JSON request.  (The key is configured and the response cache
\* is empty: a behaviour holds one request.)
PostText(req, how, aiResponse) ==
    IF req.transcript = <<>> \/ req.meetingTitle = <<>>
    THEN JsonResponse(400, "Missing required fields: transcript and meetingTitle",
                      "", <<>>)
    ELSE Completion(req.transcript, req.meetingType, how, aiResponse)

\* The route on a form with an audio file; whisper: transcribeWithWhisper
\* returned the speech of the file, or threw.
PostAudio(req, whisper, how, aiResponse) ==
    IF req.meetingTitle = <<>>
    THEN JsonResponse(400, "Missing required fields: audioFile and meetingTitle",
                      "", <<>>)
    ELSE IF ~whisper
    THEN JsonResponse(500, "AI processing failed",
                      "Audio transcription failed: Connection error.", <<>>)
    ELSE Completion(req.transcript, req.meetingType, how, aiResponse)

\* The route reaches the model call on this request.
CallsModel(req, whisper) ==
    /\ req.meetingTitle # <<>>
    /\ IF req.audio THEN whisper ELSE req.transcript # <<>>

\* errorData.details || `HTTP ${response.status}: ${response.statusText}`
ResponseError(response) ==
    IF response.details # "" THEN response.details
    ELSE IF response.status = 400 THEN "HTTP 400: Bad Request"
    ELSE "HTTP 500: Internal Server Error"

generateFallbackSummary(title, transcript, errorMessage) ==
    << <<"#">> \o title \o <<"-", "Processing Error">>, <<>>,
       <<"**Error:** AI processing failed -", errorMessage>>, <<>>,
       <<"**Status:** Fallback mode activated">>, <<>>,
       <<"## Content Preview">>,
       Substring(transcript, 0, 500)
           \o (IF StrLen(transcript) > 500 THEN <<"...">> ELSE <<>>),
       <<>>,
       <<"---">>, <<>>,
       <<"**AI Processing Unavailable**">>,
       <<"The advanced AI analysis could not be completed. Please check your API configuration or try again later.">>,
       <<"For now, you can view the raw transcript content above.">>, <<>>,
       <<"**Transcript Length:**", ToString(StrLen(transcript)), "characters">>,
       <<"**Error Details:**", errorMessage>> >>

\* The name of the uploaded audio file.
AudioFileName == "meeting.mp3"

createAudioFallbackResponse(title, audioFile, errorMessage) ==
    [transcript |-> <<"[Audio file:", audioFile, "]">>,
     summary |->
        << <<"#">> \o title \o <<"-", "Audio", "Processing Error">>, <<>>,
           <<"**Error:** Audio processing failed -", errorMessage>>, <<>>,
           <<"**File:**", audioFile, "(0.01MB)">>, <<>>,
           <<"---">>, <<>>,
           <<"**Audio Processing Failed**">>,
           <<"The audio transcription or analysis could not be completed.">>, <<>>,
           <<"**Troubleshooting:**">>,
           <<"- Check your OpenAI API key configuration">>,
           <<"- Ensure you have sufficient API credits">>,
           <<"- Verify audio file format (supported: .mp3, .wav, .m4a)">>,
           <<"- File must be under 25MB">>, <<>>,
           <<"**Error Details:**", errorMessage>> >>,
     actionItems |-> <<>>,
     participants |-> <<>>,
     meetingType |-> "error",
     keyDecisions |-> <<>>]

\* A variant of the catch block of OpenAIClient.processTranscript: the error
\* is thrown on to the caller.
processTranscriptRethrow(transcript, meetingTitle, errorMessage) ==
    [rejects |-> TRUE, caught |-> errorMessage, value |-> <<>>]

\* The catch block of OpenAIClient.processTranscript: the promise resolves
\* with a fallback result.
processTranscriptCatch(transcript, meetingTitle, errorMessage) ==
    [rejects |-> FALSE,
     caught |-> errorMessage,
     value |-> [transcript |-> transcript,
                summary |-> generateFallbackSummary(meetingTitle, transcript,
                                                    errorMessage),
                actionItems |-> <<>>,
                participants |-> <<>>,
                meetingType |-> "error",
                keyDecisions |-> <<>>]]

\* The catch block of OpenAIClient.processAudioFile.
processAudioFileCatch(meetingTitle, audioFile, errorMessage) ==
    [rejects |-> FALSE,
     caught |-> errorMessage,
     value |-> createAudioFallbackResponse(meetingTitle, audioFile, errorMessage)]

\* The catch block of the client method that sent the request.
ClientCatch(audio, transcript, meetingTitle, errorMessage) ==
    IF audio THEN processAudioFileCatch(meetingTitle, AudioFileName, errorMessage)
    ELSE processTranscriptCatch(transcript, meetingTitle, errorMessage)

\* Inputs of the handlers.
ClientTexts == {
    <<>>,
    <<"board", "meeting", ".">>,
    <<"Patrick", "Fitial", "move", "to", "approve", "the", "budget", ".",
      "carried", "3", "aye", "1", "nay", ".">>,
    <<"staff", "will", "prepare", "the", "quarterly", "report", ".", Filler, ".">> }
ClientTitles == {<<>>, <<"Budget", "hearing">>}
ClientTypes == {"board", "other"}
Entries == {"upload text", "upload audio", "local text"}

InitClient ==
    /\ centry \in Entries
    /\ ctext \in ClientTexts
    /\ ctitle \in ClientTitles
    /\ ctype \in ClientTypes
    /\ creq = <<>> /\ cresp = <<>> /\ cresult = <<>> /\ ctoast = ""
    /\ llm = "" /\ caught = "" /\ extracted = FALSE
    /\ cpc = "input"
    /\ recordings = <<>>
    /\ IdleBesideClient

\* handleProcessFile of the upload page, up to the request OpenAIClient sends:
\* processTranscript for a text file, processAudioFile for an audio file.
HandleProcessFile ==
    /\ cpc = "input"
    /\ centry \in {"upload text", "upload audio"}
    /\ IF ctitle = <<>>
       THEN /\ ctoast' = "Please provide a meeting title"
            /\ cpc' = "rejected"
            /\ creq' = creq
       ELSE /\ creq' = [audio |-> centry = "upload audio", transcript |-> ctext,
                        meetingTitle |-> ctitle, meetingType |-> ctype]
            /\ cpc' = "request"
            /\ ctoast' = ctoast
    /\ UNCHANGED <<centry, ctext, ctitle, ctype, cresp, cresult, llm, caught,
                   extracted, recordings, besideClient>>

\* The client method resolves with r.value, or rejects.
ClientReturn(r) ==
    /\ cresult' = r.value
    /\ caught' = r.caught
    /\ cpc' = IF r.rejects THEN "rejection" ELSE "done"

\* fetch rejects: the request never reaches the route.
FetchFails ==
    /\ cpc = "request"
    /\ ClientReturn(ClientCatch(creq.audio, creq.transcript, creq.meetingTitle,
                                "Failed to fetch"))
    /\ creq' = <<>>
    /\ UNCHANGED <<centry, ctext, ctitle, ctype, cresp, ctoast, llm, extracted,
                   recordings, besideClient>>

\* POST /api/ai-process
Post ==
    /\ cpc = "request"
    /\ \E whisper \in BOOLEAN, how \in {"ok"} \cup LLMFailures,
          aiResponse \in AIResponses :
          /\ cresp' = IF creq.audio THEN PostAudio(creq, whisper, how, aiResponse)
                      ELSE PostText(creq, how, aiResponse)
          /\ llm' = IF CallsModel(creq, whisper) THEN how ELSE ""
    /\ creq' = <<>>
    /\ cpc' = "response"
    /\ UNCHANGED <<centry, ctext, ctitle, ctype, cresult, ctoast, caught, extracted,
                   recordings, besideClient>>

\* The client method reads the response.
Receive ==
    /\ cpc = "response"
    /\ ClientReturn(IF cresp.ok
                    THEN [rejects |-> FALSE, caught |-> "", value |-> cresp.body]
                    ELSE ClientCatch(centry = "upload audio", ctext, ctitle,
                                     ResponseError(cresp)))
    /\ UNCHANGED <<centry, ctext, ctitle, ctype, creq, cresp, ctoast, llm,
                   extracted, recordings, besideClient>>

\* AIProcessor.processTranscript resolves, the analysis having returned or
\* thrown a.
ProcessorReturn(a) ==
    /\ cresult' = IF useRobertsRules(ctext, ctype)
                  THEN processWithRobertsRulesFormat(ctext, ctitle, a)
                  ELSE processGeneralMeeting(ctext, ctitle, a)
    /\ caught' = IF a.threw THEN NullMessage[1] ELSE ""
    /\ extracted' = TRUE
    /\ cpc' = "done"
    /\ ctoast' = ctoast

\* handleProcessFile of the page that processes a text file with AIProcessor.
HandleProcessFileLocal ==
    /\ cpc = "input"
    /\ centry = "local text"
    /\ IF ctitle = <<>>
       THEN /\ ctoast' = "Please provide a meeting title"
            /\ cpc' = "rejected"
            /\ UNCHANGED <<cresult, caught, extracted>>
       ELSE ProcessorReturn(performDeepTranscriptAnalysis(ctext, ctitle))
    /\ UNCHANGED <<centry, ctext, ctitle, ctype, creq, cresp, llm, recordings,
                   besideClient>>

\* The recording object the handler creates from the processing result.
NewRecording ==
    [title |-> ctitle,
     duration |-> 0,
     status |-> "completed",
     type |-> ctype,
     transcriptUrl |-> IF centry = "local text" THEN ctext ELSE cresult.transcript,
     summaryUrl |-> IF centry = "local text" THEN cresult ELSE cresult.summary,
     participants |-> cresult.participants]

\* The handler after the processing result has come: the summary is posted
\* to /api/save-summary (ok: the response is ok); the recording is put in
\* front of the stored list, or the catch block shows its message.
StoreRecording ==
    /\ cpc = "done"
    /\ \E ok \in BOOLEAN :
          IF ok
          THEN /\ recordings' = <<NewRecording>> \o recordings
               /\ cpc' = "stored"
               /\ ctoast' = ctoast
          ELSE /\ ctoast' = "Failed to process file"
               /\ cpc' = "failed"
               /\ recordings' = recordings
    /\ UNCHANGED <<centry, ctext, ctitle, ctype, creq, cresp, cresult, llm,
                   caught, extracted, besideClient>>

NextClient ==
    \/ HandleProcessFile
    \/ FetchFails
    \/ Post
    \/ Receive
    \/ HandleProcessFileLocal
    \/ StoreRecording

SpecClient == InitClient /\ [][NextClient]_vars

\* A line of doc is a heading that says "Processing Error".
HasErrorHeading(doc) ==
    \E i \in 1..Len(doc) :
        /\ doc[i] # <<>>
        /\ doc[i][1] = "#"
        /\ \E k \in 1..Len(doc[i]) : doc[i][k] = "Processing Error"

\* A line without the dots that may end it.
StripDots(line) ==
    IF line # <<>> /\ line[Len(line)] = "..." THEN SubSeq(line, 1, Len(line) - 1)
    ELSE line

\* A line of doc is a preview of the transcript: text the transcript begins
\* with, cut short or not.  (An empty transcript has nothing to show.)
HasPreview(doc, transcript) ==
    \/ transcript = <<>>
    \/ \E i \in 1..Len(doc) :
          /\ StripDots(doc[i]) # <<>>
          /\ Len(StripDots(doc[i])) <= Len(transcript)
          /\ SubSeq(transcript, 1, Len(StripDots(doc[i]))) = StripDots(doc[i])

\* A line of doc gives the message of the error.
HasCause(doc, message) ==
    \E i \in 1..Len(doc) : \E k \in 1..Len(doc[i]) : doc[i][k] = message

\* C5: whenever the model call fails (network error, quota, invalid key,
\* non-2xx response or malformed JSON), the caller receives a result whose
\* summary has a "Processing Error" heading, a truncated preview of the raw
\* transcript and the cause of the failure.
C5_FailureIsLabelled ==
    cpc = "done" /\ llm \in LLMFailures =>
        /\ HasErrorHeading(cresult.summary)
        /\ HasPreview(cresult.summary, ctext)
        /\ HasCause(cresult.summary, FailureMessage(llm))

\* C6: AIProcessor.processTranscript and OpenAIClient.processTranscript never
\* reject or throw to their caller: whatever fails during processing, they
\* resolve with a result, at worst an error document with meetingType
\* 'error'.
C6_NeverRejects ==
    /\ cpc # "rejection"
    /\ cpc = "done" /\ caught # "" => cresult.meetingType = "error"

\* OpenAIClient.processTranscript has caught the failure of a model call and
\* resolved.
C6_Witness ==
    /\ cpc = "done"
    /\ centry = "upload text"
    /\ llm \in LLMFailures
    /\ caught = FailureMessage(llm)
    /\ cresult.meetingType = "error"

\* The input has an empty transcript or no meeting title.  (What an audio file
\* holds is no transcript the user handed in.)
InvalidInput == ctitle = <<>> \/ (centry # "upload audio" /\ ctext = <<>>)

\* C7: input with an empty transcript or a missing meeting title is rejected
\* before any extraction work begins: on every entry point no extractor runs
\* and no model call is made for it.
C7_RejectedBeforeExtraction == InvalidInput => ~extracted /\ llm = ""

\* C29: a recording is put in the stored list 'recordings' with status
\* 'completed' only when processing succeeded: no recording whose processing
\* result is an error document (meetingType 'error') is stored as completed.
C29_CompletedOnlyOnSuccess ==
    \A i \in 1..Len(recordings) :
        recordings[i].status = "completed" => cresult.meetingType # "error"

\* ---------------------------------------------------------------------
\* Filing: the classifier isOfficialOrder, the folder of the summary
\* document, and the template the document is written from
\* ---------------------------------------------------------------------

\* orderKeywords, each keyword as the words it is made of.
orderKeywords ==
    << <<"hereby", "ordered">>, <<"status", "conference">>,
       <<"hearing", "notice">>, <<"scheduling", "order">>,
       <<"continuance", "notice">>, <<"final", "decision">>,
       <<"administrative", "order">>, <<"procedural", "notice">>,
       <<"civil", "service", "case">>, <<"csc-">> >>

\* s.toLowerCase().includes(keyword): the words of the keyword stand in s one
\* blank apart; the first and the last may be part of a longer token.
IncludesKeyword(s, keyword) ==
    \E i \in 1..(Len(s) - Len(keyword) + 1) :
        /\ Has(s[i], keyword[1])
        /\ Has(s[i + Len(keyword) - 1], keyword[Len(keyword)])
        /\ \A k \in 2..(Len(keyword) - 1) : toLowerCase(s[i + k - 1]) = keyword[k]
        /\ \A k \in 2..Len(keyword) : Gap(s, i + k - 1) = 1

\* orderKeywords.some(keyword => s.toLowerCase().includes(keyword))
SomeOrderKeyword(s) ==
    \E n \in 1..Len(orderKeywords) : IncludesKeyword(s, orderKeywords[n])

\* A classifier with a memory: it answers true for the first result filed
\* only.
isOfficialOrderOnce(r) ==
    /\ \/ SomeOrderKeyword(r.transcript)
       \/ /\ r.meetingType = "case"
          /\ \E d \in 1..Len(r.keyDecisions) : SomeOrderKeyword(r.keyDecisions[d])
    /\ \A i \in 1..Len(fsaved) : ~fsaved[i].order

\* The classifier without the condition on the meeting type.
isOfficialOrderAnyType(r) ==
    LET hasOrderKeywords == SomeOrderKeyword(r.transcript)
        hasOrderDecisions ==
            \E d \in 1..Len(r.keyDecisions) : SomeOrderKeyword(r.keyDecisions[d])
    IN  hasOrderKeywords \/ hasOrderDecisions

isOfficialOrder(r) ==
    LET hasOrderKeywords == SomeOrderKeyword(r.transcript)
        isCaseRelated == r.meetingType = "case"
        hasOrderDecisions ==
            \E d \in 1..Len(r.keyDecisions) : SomeOrderKeyword(r.keyDecisions[d])
    IN  hasOrderKeywords \/ (isCaseRelated /\ hasOrderDecisions)

\* FileOrganizer.FOLDER_PATHS and FileSystemManager.FOLDERS: the two folders
\* a summary document goes to, as the parts of their path.
FOLDER_PATHS == [notes |-> <<"/Notes">>, orders |-> <<"/Orders_Notice">>]
BASE_PATH == "/Users/terese/Library/Mobile Documents/com~apple~CloudDocs/Desktop/coding projects/comprehensive-ai-recorder"
FOLDERS ==
    [notes |-> <<BASE_PATH, "/Notes">>, orders |-> <<BASE_PATH, "/Orders_Notice">>]

\* The days a file can be saved on, as toISOString().split('T')[0] writes them.
Dates == {"2025-05-05", "2025-05-06"}

\* date.toISOString().split('T')[0].replace(/-/g, '')
DateStr(date) ==
    CASE date = "2025-05-05" -> "20250505"
      [] date = "2025-05-06" -> "20250506"

\* new Date().toISOString().replace(/[:.]/g, '-'), at half past nine
Timestamp(date) ==
    CASE date = "2025-05-05" -> "2025-05-05T09-30-00-000Z"
      [] date = "2025-05-06" -> "2025-05-06T09-30-00-000Z"

\* date.toTimeString().split(' ')[0].replace(/:/g, '')
TimeStr == "093000"

RECURSIVE Underscored(_)
\* title.replace(/[^a-zA-Z0-9\s-]/g, '').replace(/\s+/g, '_'): the marks are
\* dropped and the words joined by underscores.
Underscored(title) ==
    IF title = <<>> THEN <<>>
    ELSE IF Head(title) \in Glued THEN Underscored(Tail(title))
    ELSE IF Tail(title) = <<>> \/ Tail(title)[1] \in Glued
         THEN <<Head(title)>> \o Underscored(Tail(title))
    ELSE <<Head(title), "_">> \o Underscored(Tail(title))

generateFileName(title, meetingType, extension, suffix, date) ==
    LET prefix == CASE meetingType = "commission" -> <<"Commission_">>
                    [] meetingType = "case" -> <<"Case_">>
                    [] OTHER -> <<>>
        suffixPart == IF suffix # "" THEN <<"_", suffix>> ELSE <<>>
    IN  prefix \o Underscored(title) \o <<"_", DateStr(date), "_", TimeStr>>
            \o suffixPart \o <<".", extension>>

\* The summary path determineFilePaths chooses.
determineFilePaths(r, baseFileName) ==
    IF isOfficialOrder(r)
    THEN [folder |-> FOLDER_PATHS.orders, name |-> baseFileName \o <<"_order.md">>]
    ELSE [folder |-> FOLDER_PATHS.notes, name |-> baseFileName \o <<"_summary.md">>]

\* organizeFiles: the base file name, and the path of the summary.
organizeFiles(title, r, date) ==
    determineFilePaths(r, Underscored(title) \o <<"_", Timestamp(date)>>)

\* saveSummaryFile with the folder of the notes for every summary.
saveSummaryFileToNotes(fileName, order) ==
    [folder |-> FOLDERS.notes, name |-> fileName]

\* The path saveSummaryFile writes the summary to and returns.
saveSummaryFile(fileName, order) ==
    [folder |-> IF order THEN FOLDERS.orders ELSE FOLDERS.notes,
     name |-> fileName]

\* The templates, as lines of tokens: the placeholders in square brackets and
\* the fixed text around them; blank lines are left out.  The commission
\* template is written out in full; the other two keep their heading lines
\* and every line that holds a placeholder applyTemplate replaces.
COMMISSION_MEETING_TEMPLATE ==
    << <<"#", "[MEETING_TYPE]", "-", "[MEETING_DATE]">>,
       <<"## Meeting Information">>,
       <<"**Date:**", "[MEETING_DATE]">>,
       <<"**Time:**", "[START_TIME]">>,
       <<"**Type:**", "[MEETING_TYPE]">>,
       <<"**Recording:**", "[RECORDING_FILENAME]">>,
       <<"## Call to Order">>,
       <<"Meeting called to order at", "[START_TIME]",
         "by Chairperson Raymond Muna.">>,
       <<"## Roll Call & Attendance">>,
       <<"- **Chairperson Raymond Muna** -", "[ATTENDANCE_STATUS]">>,
       <<"- **Vice Chair Patrick Fitial** -", "[ATTENDANCE_STATUS]">>,
       <<"- **Secretary Victoria Bellas** -", "[ATTENDANCE_STATUS]">>,
       <<"- **Budget Officer Richard Farrell** -", "[ATTENDANCE_STATUS]">>,
       <<"- **Commissioner Elvira Mesgnon** -", "[ATTENDANCE_STATUS]">>,
       <<"- **Commissioner Michele Joab** -", "[ATTENDANCE_STATUS]">>,
       <<"- **Commissioner Frances Torres** -", "[ATTENDANCE_STATUS]">>,
       <<"**Quorum Status:**", "[QUORUM_STATUS]", "(", "[X]",
         "of 7 members present", ")">>,
       <<"## Approval of Agenda">>,
       <<"**Motion:**", "[MEMBER_NAME]", "moved to adopt the", "[MEETING_DATE]",
         "[MEETING_TYPE]", "agenda.">>,
       <<"**Second:**", "[MEMBER_NAME]">>,
       <<"**Vote:**", "[VOTE_RESULT]", "(Aye:", "[X]", ", Nay:", "[X]", ")">>,
       <<"**Result:**", "[MOTION_RESULT]">>,
       <<"## New Business">>,
       <<"###", "[BUSINESS_ITEM_1]">>,
       <<"**Presenter:**", "[PRESENTER_NAME]">>,
       <<"**Issue:**", "[ISSUE_DESCRIPTION]">>,
       <<"**Recommendation:**", "[RECOMMENDATION_DETAILS]">>,
       <<"**Motion:**", "[MEMBER_NAME]", "moved to", "[MOTION_DESCRIPTION]">>,
       <<"**Second:**", "[MEMBER_NAME]">>,
       <<"**Vote:**", "[VOTE_RESULT]", "(Aye:", "[X]", ", Nay:", "[X]", ")">>,
       <<"**Result:**", "[MOTION_RESULT]">>,
       <<"## Action Items">>,
       <<"-", "[ACTION_ITEM_1]">>,
       <<"-", "[ACTION_ITEM_2]">>,
       <<"## Adjournment">>,
       <<"Meeting adjourned at approximately", "[END_TIME]", ".">>,
       <<"**Meeting Duration:** Approximately", "[DURATION]", "minutes">>,
       <<"**Minutes Prepared:**", "[PREPARATION_DATE]">> >>

CASE_MEETING_TEMPLATE ==
    << <<"**COMMONWEALTH OF THE NORTHERN MARIANA ISLANDS**">>,
       <<"**CIVIL SERVICE COMMISSION**">>,
       <<"# **CASE MEETING NOTES**">>,
       <<"**Date:**", "[MEETING_DATE]">>,
       <<"**Recording:**", "[RECORDING_FILENAME]">>,
       <<"**Notes Prepared:**", "[PREPARATION_DATE]">> >>

CSC_NOTICE_ORDER_TEMPLATE ==
    << <<"**COMMONWEALTH OF THE NORTHERN MARIANA ISLANDS**">>,
       <<"**CIVIL SERVICE COMMISSION**">>,
       <<"##", "**[ORDER_TYPE]**">>,
       <<"**TO:** All Parties and Counsel of Record">>,
       <<"**DATE:**", "[ORDER_DATE]">>,
       <<"**ORDER**">> >>

MEETING_TEMPLATES ==
    << [type |-> "commission", template |-> COMMISSION_MEETING_TEMPLATE],
       [type |-> "case", template |-> CASE_MEETING_TEMPLATE],
       [type |-> "notice", template |-> CSC_NOTICE_ORDER_TEMPLATE] >>

\* line.replace(/placeholder/g, value), value being a sequence of tokens
FillLine(line, placeholder, value) ==
    Flatten([i \in 1..Len(line) |->
                IF line[i] = placeholder THEN value ELSE <<line[i]>>])

\* formattedContent.replace(/placeholder/g, value)
Fill(doc, placeholder, value) ==
    [l \in 1..Len(doc) |-> FillLine(doc[l], placeholder, value)]

\* type.charAt(0).toUpperCase() + type.slice(1)
Capitalized(type) ==
    CASE type = "general" -> "General"
      [] type = "case" -> "Case"
      [] type = "board" -> "Board"
      [] type = "commission" -> "Commission"
      [] OTHER -> "Other"

RECURSIVE Bullets(_)
\* items.map(item => `- ${item}`).join('\n')
Bullets(items) ==
    IF items = <<>> THEN <<>>
    ELSE IF Len(items) = 1 THEN <<"-">> \o items[1]
    ELSE <<"-">> \o items[1] \o <<NL>> \o Bullets(Tail(items))

\* A list placeholder is replaced only when the list has an item.
FillList(doc, placeholder, items) ==
    IF Len(items) > 0 THEN Fill(doc, placeholder, Bullets(items)) ELSE doc

\* The four placeholders every template is filled with.
FillCommon(doc, title, type, date, today) ==
    Fill(Fill(Fill(Fill(doc, "[MEETING_DATE]", <<date>>),
                   "[RECORDING_FILENAME]", title \o <<".wav">>),
              "[MEETING_TYPE]", <<Capitalized(type)>>),
         "[PREPARATION_DATE]", <<today>>)

\* applyTemplate(templateType, result, recording), the recording having the
\* given title and type and the date of the day of the call.
applyTemplate(templateType, r, title, type, date) ==
    LET found == {n \in 1..Len(MEETING_TEMPLATES) :
                     MEETING_TEMPLATES[n].type = templateType}
    IN  IF found = {} THEN r.summary
        ELSE FillList(
                FillList(
                    FillList(
                        FillCommon(MEETING_TEMPLATES[Least(found)].template,
                                   title, type, date, date),
                        "[PARTICIPANTS]", r.participants),
                    "[ACTION_ITEMS]", r.actionItems),
                "[KEY_DECISIONS]", r.keyDecisions)

\* The template saveOrganizedFiles applies.
OrganizerTemplateType(r) ==
    IF isOfficialOrder(r) THEN "notice"
    ELSE IF r.meetingType = "case" THEN "case" ELSE "commission"

\* A choice of template by the meeting type alone.
TemplateTypeOfMeeting(r) ==
    IF r.meetingType = "case" THEN "case"
    ELSE IF r.meetingType = "board" THEN "board" ELSE "commission"

\* The template saveMeetingFiles applies.
MeetingFilesTemplateType(r) ==
    IF isOfficialOrder(r) THEN "notice"
    ELSE IF r.meetingType = "case" THEN "case"
    ELSE IF r.meetingType = "board" THEN "board" ELSE "commission"

\* What saveMeetingFiles files for a result: the summary document it writes,
\* the path saveSummaryFile returns, and the classification it passed on.
saveMeetingFiles(r, meetingTitle, date) ==
    [order |-> isOfficialOrder(r),
     path |-> saveSummaryFile(
                  generateFileName(meetingTitle, r.meetingType, "md", "summary", date),
                  isOfficialOrder(r)),
     content |-> applyTemplate(MeetingFilesTemplateType(r), r, meetingTitle,
                               r.meetingType, date)]

\* What organizeFiles and saveOrganizedFiles file for a result of a recording
\* of the same type: the summary path chosen, and the summary document
\* prepared for it.
saveOrganizedFiles(r, title, date) ==
    [order |-> isOfficialOrder(r),
     path |-> organizeFiles(title, r, date),
     content |-> applyTemplate(OrganizerTemplateType(r), r, title,
                               r.meetingType, date)]

\* Inputs of the filing
MaxSaves == 2

FileTexts ==
    { <<"board", "meeting", ".">>,
      <<"case", "CSC-24-011", ".", "it", "is", "hereby", "ordered", ".">>,
      <<"notice", "of", "hearing", ".">> }

\* The meeting types of a processing result that is no error.
FileTypes == {"general", "case", "board"}

FileDecisions ==
    { <<>>, << <<"Final", "decision", "on", "the", "budget", ".">> >> }

FileSummary == << <<"#", "Budget", "hearing">>, <<"board", "meeting", ".">> >>

FileResults ==
    [transcript : FileTexts, summary : {FileSummary},
     actionItems : {<<>>}, participants : {<< <<"Raymond">> >>},
     meetingType : FileTypes, keyDecisions : FileDecisions]

Savers == {"saveMeetingFiles", "saveOrganizedFiles"}

InitFiles ==
    /\ fresults \in [1..MaxSaves -> FileResults]
    /\ ftitle = <<"Budget", "hearing">>
    /\ fsaver \in Savers
    /\ fsaved = <<>>
    /\ fpc = "input"
    /\ IdleBesideFiles

\* The next result in line.
NextResult == fresults[Len(fsaved) + 1]

\* The record is kept with the day it was filed on.
Filed(record, date) ==
    /\ fsaved' = Append(fsaved, [order |-> record.order, path |-> record.path,
                                 content |-> record.content, day |-> date])
    /\ fpc' = IF Len(fsaved) + 1 = Len(fresults) THEN "done" ELSE "input"
    /\ UNCHANGED <<fresults, ftitle, fsaver, besideFiles, cacheVars>>

SaveMeetingFiles ==
    /\ fpc = "input"
    /\ fsaver = "saveMeetingFiles"
    /\ \E date \in Dates : Filed(saveMeetingFiles(NextResult, ftitle, date), date)

SaveOrganizedFiles ==
    /\ fpc = "input"
    /\ fsaver = "saveOrganizedFiles"
    /\ \E date \in Dates : Filed(saveOrganizedFiles(NextResult, ftitle, date), date)

NextFiles ==
    \/ SaveMeetingFiles
    \/ SaveOrganizedFiles

SpecFiles == InitFiles /\ [][NextFiles]_vars

\* The results filed so far.
FiledResults == 1..Len(fsaved)

\* Text s holds the order keyword, letter case aside.
Mentions(s, keyword) == IncludesKeyword(s, keyword)
OrderKeywordSet == {orderKeywords[n] : n \in 1..Len(orderKeywords)}
TranscriptHasOrderKeyword(r) ==
    \E keyword \in OrderKeywordSet : Mentions(r.transcript, keyword)
DecisionHasOrderKeyword(r) ==
    \E d \in 1..Len(r.keyDecisions) :
        \E keyword \in OrderKeywordSet : Mentions(r.keyDecisions[d], keyword)
MentionsCaseNumberAndOrder(r) ==
    /\ \E i \in 1..Len(r.transcript) : r.transcript[i] = "CSC-24-011"
    /\ \E i \in 1..(Len(r.transcript) - 1) :
          r.transcript[i] = "hereby" /\ r.transcript[i + 1] = "ordered"

\* C8: the classifier returns true for a processing result if and only if
\* the lower-cased transcript contains an order keyword, or the meeting type
\* is 'case' and a key decision contains an order keyword; a transcript with
\* "CSC-24-011" and "hereby ordered" is classified as an official order.
C8_ClassifierDecision ==
    \A i \in FiledResults :
        /\ fsaved[i].order <=>
              \/ TranscriptHasOrderKeyword(fresults[i])
              \/ /\ fresults[i].meetingType = "case"
                 /\ DecisionHasOrderKeyword(fresults[i])
        /\ MentionsCaseNumberAndOrder(fresults[i]) => fsaved[i].order

\* A result with "CSC-24-011" and "hereby ordered" was classified as an order,
\* and so was a case result for the keyword in its key decision alone.
C8_Witness ==
    /\ Len(fsaved) = 2
    /\ MentionsCaseNumberAndOrder(fresults[1]) /\ fsaved[1].order
    /\ ~TranscriptHasOrderKeyword(fresults[2])
    /\ DecisionHasOrderKeyword(fresults[2])
    /\ fresults[2].meetingType = "case" /\ fsaved[2].order

\* The folder of a path: the last part of it.
FolderName(path) == path.folder[Len(path.folder)]

AlikeBesideClassified(i, j) ==
    /\ fresults[i].meetingType = fresults[j].meetingType
    /\ fresults[i].summary = fresults[j].summary
    /\ fresults[i].participants = fresults[j].participants
    /\ fresults[i].actionItems = fresults[j].actionItems
    /\ fsaved[i].day = fsaved[j].day

CACHE_TTL_HOURS == 24
CACHE_TTL == CACHE_TTL_HOURS * 60 * 60 * 1000

\* `${meetingType}_${Buffer.from(transcript).toString('base64').slice(0, 32)}`:
\* thirty-two characters of base64 stand for the first twenty-four bytes of
\* the transcript.
cacheKey(meetingType, transcript) == <<meetingType, Substring(transcript, 0, 24)>>

\* A lookup that takes an entry of any age.
CacheHitOfAnyAge(c, key, t) == \E e \in c : e.key = key

\* cached && (Date.now() - cached.timestamp) < CACHE_TTL
CacheHit(c, key, t) == \E e \in c : e.key = key /\ (t - e.timestamp) < CACHE_TTL

\* responseCache.get(cacheKey), an entry being there
CacheGet(c, key) == CHOOSE e \in c : e.key = key

\* A cache that stores nothing.
CacheSetNever(c, key, body, t, on) == c

\* if (process.env.ENABLE_AI_CACHE === 'true') responseCache.set(cacheKey, ...)
CacheSet(c, key, body, t, on) ==
    IF on
    THEN {e \in c : e.key # key} \cup {[key |-> key, result |-> body, timestamp |-> t]}
    ELSE c

\* The route answers from the model call on, and caches the result of a call
\* that went well.
PostMiss(req, c, t, on, response) ==
    [response |-> response, called |-> TRUE, served |-> FALSE, age |-> 0,
     cache |-> IF response.ok
               THEN CacheSet(c, cacheKey(req.meetingType, req.transcript),
                             response.body, t, on)
               ELSE c]

\* The route on a JSON request at time t, the cache holding c; how: the way
\* the model call goes if it is made.
PostCached(req, c, t, on, how, aiResponse) ==
    IF req.transcript = <<>> \/ req.meetingTitle = <<>>
    THEN [response |-> PostText(req, how, aiResponse), called |-> FALSE,
          served |-> FALSE, age |-> 0, cache |-> c]
    ELSE IF CacheHit(c, cacheKey(req.meetingType, req.transcript), t)
    THEN [response |-> JsonResponse(200, "", "",
                          CacheGet(c, cacheKey(req.meetingType, req.transcript)).result),
          called |-> FALSE, served |-> TRUE,
          age |-> t - CacheGet(c, cacheKey(req.meetingType, req.transcript)).timestamp,
          cache |-> c]
    ELSE PostMiss(req, c, t, on,
                  Completion(req.transcript, req.meetingType, how, aiResponse))

\* Inputs of the cache
MaxPosts == 3
MaxTicks == 3

\* The two texts agree on their first twenty-four characters.
CacheTexts ==
    { <<>>,
      <<"staff", "will", "prepare", "the", "quarterly", "report", ".">>,
      <<"staff", "will", "prepare", "the", "quarterly", "budget", ".">> }

CacheRequests ==
    [transcript : CacheTexts, meetingTitle : {<<"Budget", "hearing">>},
     meetingType : ClientTypes]

CacheOutcomes == {"ok", "quota"}

\* The times the clock is seen to advance by, in milliseconds.
ClockSteps == {1, CACHE_TTL - 1}

\* No time: the request was never answered.
Never == 0 - 1

\* When the request was noted in the log, or Never.
TimeOf(log, req) ==
    IF \E e \in log : e.req = req
    THEN (CHOOSE e \in log : e.req = req).at
    ELSE Never

Note(log, req, t) == {e \in log : e.req # req} \cup {[req |-> req, at |-> t]}

InitCache ==
    /\ responseCache = {}
    /\ clock = 0
    /\ cacheOn \in BOOLEAN
    /\ posts = 0
    /\ ticks = 0
    /\ answered = {}
    /\ made = {}
    /\ last = <<>>
    /\ IdleBesideCache

\* The route has answered the request with r.
Answer(req, r) ==
    /\ responseCache' = r.cache
    /\ posts' = posts + 1
    /\ last' = [req |-> req, status |-> r.response.status, body |-> r.response.body,
                called |-> r.called, served |-> r.served, age |-> r.age,
                since |-> TimeOf(answered, req), madeAt |-> TimeOf(made, req)]
    /\ answered' = IF r.response.ok THEN Note(answered, req, clock) ELSE answered
    /\ made' = IF r.response.ok /\ r.called THEN Note(made, req, clock) ELSE made
    /\ UNCHANGED <<clock, cacheOn, ticks, besideCache>>

\* POST /api/ai-process with a JSON body
PostRequest ==
    /\ posts < MaxPosts
    /\ \E req \in CacheRequests, how \in CacheOutcomes :
          Answer(req, PostCached(req, responseCache, clock, cacheOn, how,
                                 [summary |-> << <<"<summary>">> >>]))

\* Time passes between two requests.
Advance ==
    /\ ticks < MaxTicks
    /\ \E d \in ClockSteps : clock' = clock + d
    /\ ticks' = ticks + 1
    /\ UNCHANGED <<responseCache, cacheOn, posts, answered, made, last, besideCache>>

NextCache ==
    \/ PostRequest
    \/ Advance

SpecCache == InitCache /\ [][NextCache]_vars

\* C11: an entry of the response cache whose age has reached CACHE_TTL is
\* never returned as a response, and no request removes the key of an entry
\* from the map: a stale entry stays and is only ignored by the lookup.
C11_StaleIgnoredNeverDeleted ==
    /\ [](posts > 0 /\ last.served => last.age < CACHE_TTL)
    /\ [][\A e \in responseCache : \E f \in responseCache' : f.key = e.key]_vars

\* The last request found a stale entry under its key, called the model,
\* which failed, and the stale entry is still in the map.
C11_Witness ==
    /\ posts > 0 /\ last.called /\ last.status = 500
    /\ \E e \in responseCache :
          /\ e.key = cacheKey(last.req.meetingType, last.req.transcript)
          /\ clock - e.timestamp >= CACHE_TTL

\* C12, as stated: after a POST for a meeting type and transcript was
\* answered well, a POST with the same type and transcript within the expiry
\* period is answered from the cache without a model call.
C12_SecondPostCached ==
    posts > 0 /\ last.since # Never /\ clock - last.since < CACHE_TTL
        => last.served /\ ~last.called

\* C12, amended: with ENABLE_AI_CACHE set to 'true', after a POST for a
\* meeting type and transcript was answered well by a model call, a POST with
\* the same type and transcript less than CACHE_TTL after that call is
\* answered from the cache, with status 200 and without a model call.
C12_CachedWhenEnabled ==
    posts > 0 /\ cacheOn /\ last.madeAt # Never /\ clock - last.madeAt < CACHE_TTL
        => last.served /\ ~last.called /\ last.status = 200

\* A request was answered from the cache one millisecond before the entry
\* its own model call had stored expired.
C12_Witness ==
    /\ posts > 0 /\ cacheOn /\ last.madeAt # Never
    /\ clock - last.madeAt = CACHE_TTL - 1
    /\ last.served /\ ~last.called

\* C13: when the model call fails (it throws, or the route answers with a
\* status that is not 2xx, or the answer of the model is malformed), the
\* result the caller receives is a pattern-matching analysis of the
\* transcript: the extractors have run and the result is no error document.
C13_FallsBackToPatternMatching ==
    cpc = "done" /\ llm \in LLMFailures
        => extracted /\ cresult.meetingType # "error"

\* C25: a response served from the cache was computed for the meeting type
\* and the whole transcript of the request it answers.
C25_CacheServesSameRequest ==
    posts > 0 /\ last.served =>
        /\ last.body.transcript = last.req.transcript
        /\ last.body.meetingType = last.req.meetingType

-----------------------------------------------------------------------------
\* SpecTemplate: the template-filling summary of the board meeting analysis,
\* generateRealRobertsRulesSummary, with its fetch of /api/template and its
\* catch.

\* The template served by /api/template, template/COMMISSION_MEETING_TEMPLATE.md:
\* the commission template with the lines the patterns of
\* generateRealRobertsRulesSummary look for (an old business placeholder, the
\* closing line of the business items, a third action item) and the usage
\* guide that the function cuts off.
COMMISSION_TEMPLATE_FILE ==
    SubSeq(COMMISSION_MEETING_TEMPLATE, 1, 22)
        \o << <<"## Old Business">>, <<"[OLD_BUSINESS_ITEMS]">> >>
        \o SubSeq(COMMISSION_MEETING_TEMPLATE, 23, 31)
        \o << <<"###", "[ADD_ADDITIONAL_ITEMS_AS_NEEDED]">> >>
        \o SubSeq(COMMISSION_MEETING_TEMPLATE, 32, 34)
        \o << <<"-", "[ACTION_ITEM_3]">> >>
        \o SubSeq(COMMISSION_MEETING_TEMPLATE, 35, 38)
        \o << <<"## TEMPLATE USAGE GUIDE">>,
              <<"Replace", "[PLACEHOLDERS]", "with the meeting's data">> >>

\* template.split('## ... TEMPLATE USAGE GUIDE')[0].trim()
BeforeUsageGuide(doc) ==
    LET hits == {l \in 1..Len(doc) : doc[l] = <<"## TEMPLATE USAGE GUIDE">>}
    IN IF hits = {} THEN doc ELSE SubSeq(doc, 1, Least(hits) - 1)

\* The positions <<line, token>> of a document where pattern (a sequence of
\* tokens) starts.
PatternAt(doc, l, i, pattern) ==
    /\ i + Len(pattern) - 1 <= Len(doc[l])
    /\ SubSeq(doc[l], i, i + Len(pattern) - 1) = pattern
PatternLines(doc, pattern) ==
    {l \in 1..Len(doc) : \E i \in 1..Len(doc[l]) : PatternAt(doc, l, i, pattern)}

\* template.replace(/pattern/, value), without the g flag: the first
\* occurrence only.
FillFirst(doc, pattern, value) ==
    IF PatternLines(doc, pattern) = {} THEN doc
    ELSE LET l == Least(PatternLines(doc, pattern))
             i == Least({k \in 1..Len(doc[l]) : PatternAt(doc, l, k, pattern)})
         IN [doc EXCEPT ![l] = SubSeq(doc[l], 1, i - 1) \o value
                                \o SubSeq(doc[l], i + Len(pattern), Len(doc[l]))]

\* template.replace(/opening[\s\S]*?closing/, lines): from the first line that
\* starts with opening to the nearest later line that starts with closing.
FillRange(doc, opening, closing, lines) ==
    LET starts == {l \in 1..Len(doc) : PatternAt(doc, l, 1, opening)}
        from == Least(starts)
        ends == {l \in 1..Len(doc) : l > from /\ PatternAt(doc, l, 1, closing)}
    IN IF starts = {} THEN doc
       ELSE IF ends = {} THEN doc
       ELSE SubSeq(doc, 1, from - 1) \o lines
                \o SubSeq(doc, Least(ends) + 1, Len(doc))

RECURSIVE RecordingName(_)
\* data.meetingTitle.replace(/[^a-zA-Z0-9]/g, '_'): the spaces and the marks
\* become underscores.
RecordingName(title) ==
    IF title = <<>> THEN <<>>
    ELSE IF Head(title) \in Glued THEN <<"_">> \o RecordingName(Tail(title))
    ELSE IF Tail(title) = <<>> \/ Tail(title)[1] \in Glued
         THEN <<Head(title)>> \o RecordingName(Tail(title))
    ELSE <<Head(title), "_">> \o RecordingName(Tail(title))

\* today.toLocaleTimeString('en-US', {hour: '2-digit', minute: '2-digit'})
Now == <<"<now>">>

RECURSIVE FillAttendance(_, _)
\* data.attendance.forEach(member => template.replace(/\[ATTENDANCE_STATUS\]/,
\*     member.present ? 'Present' : 'Absent'))
FillAttendance(doc, attendance) ==
    IF attendance = <<>> THEN doc
    ELSE FillAttendance(
             FillFirst(doc, <<"[ATTENDANCE_STATUS]">>,
                       <<IF Head(attendance).present THEN "Present" ELSE "Absent">>),
             Tail(attendance))

\* data.attendance.filter(m => m.present).length
PresentCount(attendance) ==
    Cardinality({i \in 1..Len(attendance) : attendance[i].present})

QuorumSize == 4

\* The quorum status and the count of members present.
FillQuorum(doc, attendance) ==
    LET quorumMet == PresentCount(attendance) >= QuorumSize
        status == Fill(doc, "[QUORUM_STATUS]",
                       <<IF quorumMet THEN "Met" ELSE "Not Met">>)
    IN FillFirst(status, <<"[X]", "of 7 members present">>,
                 <<ToString(PresentCount(attendance)), "of 7 members present">>)

\* if (data.motions.length > 0) the first motion fills the agenda motion.
FillMotions(doc, ms) ==
    IF Len(ms) > 0
    THEN LET firstMotion == ms[1]
             maker == FillFirst(doc, <<"[MEMBER_NAME]", "moved to adopt the">>,
                                <<firstMotion.maker, "moved to adopt the">>)
             seconder == FillFirst(maker, <<"**Second:**", "[MEMBER_NAME]">>,
                                   <<"**Second:**", firstMotion.seconder>>)
         IN FillFirst(seconder, <<"**Result:**", "[MOTION_RESULT]">>,
                      <<"**Result:**", firstMotion.result>>)
    ELSE doc

\* businessSection, two lines for an item.
BusinessSection(items) ==
    Flatten([k \in 1..Len(items) |->
        << <<"### Business Item", ToString(k), ":">> \o items[k].title,
           <<"**Discussion:**">> \o Substring(items[k].discussion, 0, 300)
               \o <<"...">> >>])

\* template.replace(/### \[BUSINESS_ITEM_1\][\s\S]*?### \[ADD_ADDITIONAL_ITEMS_AS_NEEDED\]/,
\*                  businessSection || 'None presented')
FillBusiness(doc, items) ==
    FillRange(doc, <<"###", "[BUSINESS_ITEM_1]">>,
              <<"###", "[ADD_ADDITIONAL_ITEMS_AS_NEEDED]">>,
              IF BusinessSection(items) = <<>> THEN << <<"None presented">> >>
              ELSE BusinessSection(items))

DescriptionCap == 60

\* The table of the action items.
ActionItemsList(items) ==
    << <<"| Action Item | Responsible Party | Deadline |">>,
       <<"|-------------|-------------------|----------|">> >>
    \o [k \in 1..Len(items) |->
          <<"|">>
          \o (IF StrLen(items[k].description) > DescriptionCap
              THEN Substring(items[k].description, 0, DescriptionCap) \o <<"...">>
              ELSE items[k].description)
          \o <<"|", items[k].responsible, "|",
               IF items[k].deadline = "" THEN "TBD" ELSE items[k].deadline, "|">>]

\* The action items' table, or 'None identified', over the action item lines.
FillActionItems(doc, items) ==
    FillRange(doc, <<"-", "[ACTION_ITEM_1]">>, <<"-", "[ACTION_ITEM_3]">>,
              IF Len(items) > 0 THEN ActionItemsList(items)
              ELSE << <<"None identified">> >>)

\* The processing signature appended to the filled template.
Signature(data) ==
    << <<"---">>,
       <<"**Generated by Bee x Vibe AI Assistant**">>,
       <<"**Real Content Analysis Performed**">>,
       <<"- Actual transcript analyzed (", ToString(StrLen(data.transcript)),
         "characters)">>,
       <<"-", ToString(PresentCount(data.attendance)),
         "members identified as present">>,
       <<"-", ToString(Len(data.motions)), "motions extracted">>,
       <<"-", ToString(Len(data.businessItems)), "business items found">>,
       <<"-", ToString(Len(data.actionItems)), "action items identified">>,
       <<"- Roberts Rules format applied">> >>

\* The try block of generateRealRobertsRulesSummary, once the template text
\* has arrived.
FillTemplate(template, data) ==
    LET cut == BeforeUsageGuide(template)
        type == Fill(cut, "[MEETING_TYPE]", <<"Board Meeting">>)
        date == Fill(type, "[MEETING_DATE]", Today)
        start == Fill(date, "[START_TIME]", Now)
        recording == Fill(start, "[RECORDING_FILENAME]",
                          RecordingName(data.meetingTitle) \o <<"_recording.wav">>)
        prepared == Fill(recording, "[PREPARATION_DATE]", Today)
        attendance == FillAttendance(prepared, data.attendance)
        quorum == FillQuorum(attendance, data.attendance)
        moved == FillMotions(quorum, data.motions)
        business == FillBusiness(moved, data.businessItems)
        actions == FillActionItems(business, data.actionItems)
        old == FillFirst(actions, <<"[OLD_BUSINESS_ITEMS]">>, <<"None reported">>)
    IN old \o Signature(data)

\* generateFallbackSummary of the board meeting analysis: the counts under a
\* status line.
generateFallbackSummaryOfCounts(data) ==
    << <<"#">> \o data.meetingTitle \o <<"- Board Meeting Summary">>,
       <<"**Date:**">> \o Today,
       <<"**Type:** Board Meeting (Roberts Rules)">>,
       <<"**Status:** Template unavailable - fallback format used">>,
       <<"## Real Analysis Completed">>,
       <<"- Transcript analyzed:", ToString(StrLen(data.transcript)), "characters">>,
       <<"- Members present:", ToString(PresentCount(data.attendance))>>,
       <<"- Motions found:", ToString(Len(data.motions))>>,
       <<"- Business items:", ToString(Len(data.businessItems))>>,
       <<"- Action items:", ToString(Len(data.actionItems))>>,
       <<"---">>,
       <<"Generated by Bee x Vibe AI Assistant">>,
       <<"Real content analysis with fallback formatting">> >>

\* generateRealRobertsRulesSummary: fetch is "ok", "not ok" (a response whose
\* ok is false, which throws 'Template not accessible') or "rejected" (the
\* fetch itself throws); the catch answers both with the fallback summary.
generateRealRobertsRulesSummary(data, fetch, template) ==
    IF fetch = "ok" THEN FillTemplate(template, data)
    ELSE generateFallbackSummaryOfCounts(data)

\* The inputs.
Fetches == {"ok", "not ok", "rejected"}
TemplateTexts == {COMMISSION_MEETING_TEMPLATE, COMMISSION_TEMPLATE_FILE}
MemberNames ==
    <<"Raymond Muna", "Patrick Fitial", "Victoria Bellas", "Richard Farrell",
      "Elvira Mesgnon", "Michele Joab", "Frances Torres">>
Roll(present) ==
    [k \in 1..Len(MemberNames) |-> [name |-> MemberNames[k], present |-> k \in present]]
Attendances == {<<>>, Roll(1..7), Roll(1..3)}
TemplateMotions ==
    {<<>>,
     << [text |-> <<"approve", "the", "agenda">>, maker |-> "Patrick Fitial",
         seconder |-> "Victoria Bellas", result |-> "Passed"] >>}
TemplateBusiness ==
    {<<>>,
     << [title |-> <<"budget">>,
         discussion |-> <<"staff", "will", "prepare", "the", "report">>] >>}
TemplateActions ==
    {<<>>,
     << [description |-> <<"staff", "will", "prepare", "the", "report">>,
         responsible |-> "Staff", deadline |-> ""] >>}
TemplateData ==
    [transcript : {<<"staff", "will", "prepare", "the", "report", ".">>},
     meetingTitle : {<<"Budget", "hearing">>},
     attendance : Attendances, motions : TemplateMotions,
     businessItems : TemplateBusiness, actionItems : TemplateActions]

InitTemplate ==
    /\ tdata \in TemplateData
    /\ tfetch \in Fetches
    /\ ttemplate \in TemplateTexts
    /\ tdoc = <<>>
    /\ tpc = "ready"
    /\ IdleBesideTemplate

Summarised(doc) ==
    /\ tdoc' = doc
    /\ tpc' = "done"
    /\ UNCHANGED <<tdata, tfetch, ttemplate, besideTemplate>>

GenerateRealRobertsRulesSummary ==
    /\ tpc = "ready"
    /\ Summarised(generateRealRobertsRulesSummary(tdata, tfetch, ttemplate))

NextTemplate == GenerateRealRobertsRulesSummary

SpecTemplate == InitTemplate /\ [][NextTemplate]_vars

\* The tokens of a document.
DocTokens(doc) == UNION {{doc[l][i] : i \in 1..Len(doc[l])} : l \in 1..Len(doc)}

\* The lines by which a document says that it is a fallback.
FallbackMarkers ==
    {"**Status:** Template unavailable - fallback format used",
     "Real content analysis with fallback formatting"}

\* C14: when the template cannot be fetched, the document that comes back
\* carries no error or fallback marker.
C14_FallbackUnmarked ==
    tpc = "done" /\ tfetch # "ok" => DocTokens(tdoc) \cap FallbackMarkers = {}

\* The placeholders of the sections filled from the extracted data.
SectionPlaceholders ==
    [attendance |-> {"[ATTENDANCE_STATUS]"},
     motions |-> {"[MEMBER_NAME]", "[MOTION_RESULT]"},
     businessItems |-> {"[BUSINESS_ITEM_1]"},
     actionItems |-> {"[ACTION_ITEM_1]", "[ACTION_ITEM_2]", "[ACTION_ITEM_3]"}]

NoneLiterals == {"None", "None presented", "None identified", "None reported"}

\* C15: in the filled template, a section with no extracted data shows a
\* literal None and none of its placeholders is left.
C15_NoneForEmptySections ==
    tpc = "done" /\ tfetch = "ok" =>
        \A f \in DOMAIN SectionPlaceholders :
            Len(tdata[f]) = 0 =>
                /\ DocTokens(tdoc) \cap SectionPlaceholders[f] = {}
                /\ DocTokens(tdoc) \cap NoneLiterals # {}

-----------------------------------------------------------------------------
\* SpecLive: the hook useLiveTranscription: its functions, called in any
\* order, and the events of the recognition objects it creates.

\* A recognition object with the two variables its handlers close over.
\* phase: "inactive", "started" (start() was called) or "stopping" (stop()
\* was called, an error ended the session, or the service ended it: the end
\* event is due).  startPending: the start event has not been delivered yet.
NewRecognition ==
    [phase |-> "inactive", startPending |-> FALSE,
     finalTranscript |-> <<>>, interimTranscript |-> <<>>]

\* recognition.start() throws an InvalidStateError on a session that has
\* started and not ended.
StartThrows(r) == r.phase # "inactive"
RecognitionStart(r) == [r EXCEPT !.phase = "started", !.startPending = TRUE]

\* recognition.stop(): the session ends, its end event follows.
RecognitionStop(r) == IF r.phase = "started" THEN [r EXCEPT !.phase = "stopping"] ELSE r

\* The errors of a session, and those after which onerror tries a restart.
RecognitionErrors == {"no-speech", "network"}
TemporaryErrors == {"no-speech", "audio-capture"}
ErrorMessage(kind) ==
    CASE kind = "no-speech" -> "No speech detected. Please speak louder."
      [] kind = "audio-capture" -> "Audio capture failed. Check microphone permissions."
      [] kind = "not-allowed" -> "Microphone access denied. Please allow microphone access."
      [] kind = "network" -> "Network error occurred during transcription."
      [] OTHER -> "Speech recognition error occurred"

\* Bounds: the recognition objects created, the results delivered, the
\* restart timers pending at one time.
MaxStarts == 2
MaxResults == 2
MaxTimers == 1

\* What is said: words of final results, and a word of an interim result.
FinalWords == {"aye", "nay"}
InterimWords == {"uh"}

InitLive ==
    /\ isListeningRef = FALSE
    /\ recognitionRef = 0
    /\ recognitions = <<>>
    /\ isTranscribing = FALSE
    /\ liveTranscript = <<>>
    /\ transcriptSegments = <<>>
    /\ transcriptionError = ""
    /\ restartTimers = 0
    /\ halted = ""
    /\ isSupported \in BOOLEAN
    /\ resultCount = 0
    /\ IdleBesideLive

\* The body of startTranscription: a new recognition object is created, kept
\* in recognitionRef and started; without browser support the catch block
\* reports the error.
startTranscription ==
    /\ IF isSupported
       THEN /\ recognitions' = Append(recognitions, RecognitionStart(NewRecognition))
            /\ recognitionRef' = Len(recognitions) + 1
            /\ UNCHANGED <<isTranscribing, transcriptionError>>
       ELSE /\ transcriptionError' = "Speech recognition not supported in this browser"
            /\ isTranscribing' = FALSE
            /\ UNCHANGED <<recognitions, recognitionRef>>
    /\ halted' = ""
    /\ UNCHANGED <<isListeningRef, liveTranscript, transcriptSegments,
                   restartTimers, isSupported, resultCount, besideLive>>

StartTranscription ==
    /\ Len(recognitions) < MaxStarts
    /\ startTranscription

\* resumeTranscription: startTranscription again, if there is a recognition
\* object or the hook is listening.
ResumeTranscription ==
    /\ recognitionRef # 0 \/ isListeningRef
    /\ Len(recognitions) < MaxStarts
    /\ startTranscription

StopTranscription ==
    /\ isListeningRef' = FALSE
    /\ recognitions' = IF recognitionRef # 0
                       THEN [recognitions EXCEPT ![recognitionRef] = RecognitionStop(@)]
                       ELSE recognitions
    /\ recognitionRef' = 0
    /\ isTranscribing' = FALSE
    /\ halted' = "stopped"
    /\ UNCHANGED <<liveTranscript, transcriptSegments, transcriptionError,
                   restartTimers, isSupported, resultCount, besideLive>>

PauseTranscription ==
    /\ IF recognitionRef # 0
       THEN /\ recognitions' = [recognitions EXCEPT ![recognitionRef] = RecognitionStop(@)]
            /\ isTranscribing' = FALSE
       ELSE UNCHANGED <<recognitions, isTranscribing>>
    /\ halted' = IF halted = "" THEN "paused" ELSE halted
    /\ UNCHANGED <<isListeningRef, recognitionRef, liveTranscript,
                   transcriptSegments, transcriptionError, restartTimers,
                   isSupported, resultCount, besideLive>>

ClearTranscript ==
    /\ liveTranscript' = <<>>
    /\ transcriptSegments' = <<>>
    /\ transcriptionError' = ""
    /\ UNCHANGED <<isListeningRef, recognitionRef, recognitions, isTranscribing,
                   restartTimers, halted, isSupported, resultCount, besideLive>>

\* recognition.onstart of object k
OnStart(k) ==
    /\ recognitions[k].startPending
    /\ recognitions' = [recognitions EXCEPT ![k].startPending = FALSE]
    /\ isListeningRef' = TRUE
    /\ isTranscribing' = TRUE
    /\ transcriptionError' = ""
    /\ UNCHANGED <<recognitionRef, liveTranscript, transcriptSegments,
                   restartTimers, halted, isSupported, resultCount, besideLive>>

\* A session delivers results from its start event on, a last one after
\* stop() included.
Delivers(r) == r.phase \in {"started", "stopping"} /\ ~r.startPending

\* recognition.onresult of object k on an event with one new result, final
\* or interim.
OnFinalResult(k, word) ==
    /\ Delivers(recognitions[k])
    /\ resultCount < MaxResults
    /\ resultCount' = resultCount + 1
    /\ recognitions' =
          [recognitions EXCEPT
              ![k].finalTranscript = Append(@, word),
              ![k].interimTranscript = <<>>]
    /\ transcriptSegments' = Append(transcriptSegments, word)
    /\ liveTranscript' = Append(recognitions[k].finalTranscript, word)
    /\ UNCHANGED <<isListeningRef, recognitionRef, isTranscribing,
                   transcriptionError, restartTimers, halted, isSupported,
                   besideLive>>

OnInterimResult(k, word) ==
    /\ Delivers(recognitions[k])
    /\ resultCount < MaxResults
    /\ resultCount' = resultCount + 1
    /\ recognitions' = [recognitions EXCEPT ![k].interimTranscript = <<word>>]
    /\ liveTranscript' = Append(recognitions[k].finalTranscript, word)
    /\ UNCHANGED <<isListeningRef, recognitionRef, isTranscribing,
                   transcriptSegments, transcriptionError, restartTimers,
                   halted, isSupported, besideLive>>

\* The timer of onerror is set.
SetsTimer(kind) == kind \in TemporaryErrors /\ isListeningRef

\* recognition.onerror of object k; the error ends the session.
OnError(k, kind) ==
    /\ recognitions[k].phase = "started" /\ ~recognitions[k].startPending
    /\ SetsTimer(kind) => restartTimers < MaxTimers
    /\ recognitions' = [recognitions EXCEPT ![k].phase = "stopping"]
    /\ transcriptionError' = ErrorMessage(kind)
    /\ isTranscribing' = FALSE
    /\ restartTimers' = IF SetsTimer(kind) THEN restartTimers + 1 ELSE restartTimers
    /\ UNCHANGED <<isListeningRef, recognitionRef, liveTranscript,
                   transcriptSegments, halted, isSupported, resultCount,
                   besideLive>>

\* The callback of the timer set by onerror, a second later.
RestartTimer ==
    /\ restartTimers > 0
    /\ restartTimers' = restartTimers - 1
    /\ recognitions' =
          IF recognitionRef # 0 /\ isListeningRef
               /\ ~StartThrows(recognitions[recognitionRef])
          THEN [recognitions EXCEPT ![recognitionRef] = RecognitionStart(@)]
          ELSE recognitions
    /\ UNCHANGED <<isListeningRef, recognitionRef, isTranscribing,
                   liveTranscript, transcriptSegments, transcriptionError,
                   halted, isSupported, resultCount, besideLive>>

\* The recognition service ends the session of object k on its own.
SessionEnds(k) ==
    /\ recognitions[k].phase = "started" /\ ~recognitions[k].startPending
    /\ recognitions' = [recognitions EXCEPT ![k].phase = "stopping"]
    /\ UNCHANGED <<isListeningRef, recognitionRef, isTranscribing,
                   liveTranscript, transcriptSegments, transcriptionError,
                   restartTimers, halted, isSupported, resultCount, besideLive>>

\* recognition.onend of object k: a start event still due is not delivered
\* any more; the handler starts the object again while the hook is
\* listening.  (start() cannot throw here: the session has just ended.)
OnEnd(k) ==
    /\ recognitions[k].phase = "stopping"
    /\ recognitions' =
          [recognitions EXCEPT
              ![k] = IF isListeningRef THEN RecognitionStart(@)
                     ELSE [@ EXCEPT !.phase = "inactive", !.startPending = FALSE]]
    /\ UNCHANGED <<isListeningRef, recognitionRef, isTranscribing,
                   liveTranscript, transcriptSegments, transcriptionError,
                   restartTimers, halted, isSupported, resultCount, besideLive>>

NextLive ==
    \/ StartTranscription
    \/ StopTranscription
    \/ PauseTranscription
    \/ ResumeTranscription
    \/ ClearTranscript
    \/ RestartTimer
    \/ \E k \in 1..Len(recognitions) :
          \/ OnStart(k)
          \/ \E word \in FinalWords : OnFinalResult(k, word)
          \/ \E word \in InterimWords : OnInterimResult(k, word)
          \/ \E kind \in RecognitionErrors : OnError(k, kind)
          \/ SessionEnds(k)
          \/ OnEnd(k)

SpecLive == InitLive /\ [][NextLive]_vars

\* C26: after stopTranscription has returned and until startTranscription is
\* called again, no recognition session is started or restarted, whatever
\* the order of the start, end and error events still due.
C26_NoStartAfterStop ==
    [][halted = "stopped" /\ halted' = "stopped" =>
          \A k \in 1..Len(recognitions) :
              recognitions'[k].phase = "started" => recognitions[k].phase = "started"]_vars

\* C27: from pauseTranscription until transcription is resumed or started
\* again, isTranscribing is false and the recognition session that was paused
\* is not running.
C27_PausedStaysPaused ==
    halted = "paused" =>
        /\ ~isTranscribing
        /\ recognitionRef # 0 => recognitions[recognitionRef].phase # "started"

\* C28: until the transcript is cleared, every final result appended so far
\* (the segments) is still part of the live transcript.
C28_FinalTextKept ==
    \A i \in 1..Len(transcriptSegments) :
        \E j \in 1..Len(liveTranscript) : liveTranscript[j] = transcriptSegments[i]


-----------------------------------------------------------------------------
\* SpecRecorder: the hook useAudioRecorder.  Its functions are callbacks that
\* close over the state of the last render (state.isRecording,
\* state.isPaused, state.stream), while setState(prev => ...) updates the
\* state itself; a render brings the callbacks up to date.  The duration the
\* timer counts is left out.

\* Bound: the MediaRecorder objects created.
MaxRecorders == 2

\* A MediaRecorder on a stream of its own.  state: "inactive", "recording" or
\* "paused"; stopPending: its stop event is due.
StartedRecorder == [state |-> "recording", stopPending |-> FALSE]

\* pause() and resume() throw an InvalidStateError on an inactive recorder.
PauseThrows(r) == r.state = "inactive"

\* stop(), or the end of every track of the stream: an active recorder
\* becomes inactive and its stop event follows.
Inactivate(r) ==
    IF r.state = "inactive" THEN r ELSE [state |-> "inactive", stopPending |-> TRUE]

\* stream.getTracks().forEach(track => track.stop()) on stream k; 0: no stream
StopTracks(recs, k) ==
    IF k = 0 THEN recs ELSE [recs EXCEPT ![k] = Inactivate(@)]

\* The state the hook holds, as a render sees it.
RecorderState == [isRecording |-> isRecording, isPaused |-> isPaused, stream |-> stream]

InitRecorder ==
    /\ isRecording = FALSE
    /\ isPaused = FALSE
    /\ audioBlob = FALSE
    /\ stream = 0
    /\ rendered = [isRecording |-> FALSE, isPaused |-> FALSE, stream |-> 0]
    /\ mediaRecorderRef = 0
    /\ mediaRecorders = <<>>
    /\ intervalRef = FALSE
    /\ IdleBesideRecorder

\* The component renders: the callbacks are made anew over the state.
Render ==
    /\ rendered # RecorderState
    /\ rendered' = RecorderState
    /\ UNCHANGED <<isRecording, isPaused, audioBlob, stream, mediaRecorderRef,
                   mediaRecorders, intervalRef, besideRecorder>>

\* startRecording from the moment getUserMedia has resolved.  (When it
\* rejects, the error is thrown on and nothing changes.)
StartRecording ==
    /\ Len(mediaRecorders) < MaxRecorders
    /\ mediaRecorders' = Append(mediaRecorders, StartedRecorder)
    /\ mediaRecorderRef' = Len(mediaRecorders) + 1
    /\ isRecording' = TRUE
    /\ isPaused' = FALSE
    /\ stream' = Len(mediaRecorders) + 1
    /\ intervalRef' = TRUE
    /\ UNCHANGED <<audioBlob, rendered, besideRecorder>>

\* pauseRecording, where it does something: there is a recorder, the render
\* saw isRecording, and pause() does not throw.
PauseRecording ==
    /\ mediaRecorderRef # 0 /\ rendered.isRecording
    /\ ~PauseThrows(mediaRecorders[mediaRecorderRef])
    /\ mediaRecorders' = [mediaRecorders EXCEPT ![mediaRecorderRef].state = "paused"]
    /\ intervalRef' = FALSE
    /\ isPaused' = TRUE
    /\ UNCHANGED <<isRecording, audioBlob, stream, rendered, mediaRecorderRef,
                   besideRecorder>>

\* resumeRecording, where it does something.
ResumeRecording ==
    /\ mediaRecorderRef # 0 /\ rendered.isPaused
    /\ ~PauseThrows(mediaRecorders[mediaRecorderRef])
    /\ mediaRecorders' = [mediaRecorders EXCEPT ![mediaRecorderRef].state = "recording"]
    /\ intervalRef' = TRUE
    /\ isPaused' = FALSE
    /\ UNCHANGED <<isRecording, audioBlob, stream, rendered, mediaRecorderRef,
                   besideRecorder>>

\* stopRecording: the recorder is stopped, the timer cleared and the tracks
\* of the stream the render saw are stopped; the state is left to onstop.
StopRecording ==
    /\ mediaRecorderRef # 0
    /\ mediaRecorders' =
          StopTracks([mediaRecorders EXCEPT ![mediaRecorderRef] = Inactivate(@)],
                     rendered.stream)
    /\ intervalRef' = FALSE
    /\ UNCHANGED <<isRecording, isPaused, audioBlob, stream, rendered,
                   mediaRecorderRef, besideRecorder>>

resetRecording ==
    /\ mediaRecorders' = StopTracks(mediaRecorders, rendered.stream)
    /\ intervalRef' = FALSE
    /\ mediaRecorderRef' = 0
    /\ isRecording' = FALSE
    /\ isPaused' = FALSE
    /\ audioBlob' = FALSE
    /\ stream' = 0
    /\ UNCHANGED <<rendered, besideRecorder>>

\* resetRecording once something was recorded.
ResetRecording ==
    /\ mediaRecorders # <<>>
    /\ resetRecording

\* mediaRecorder.onstop of recorder k
OnStop(k) ==
    /\ mediaRecorders[k].stopPending
    /\ mediaRecorders' = [mediaRecorders EXCEPT ![k].stopPending = FALSE]
    /\ audioBlob' = TRUE
    /\ isRecording' = FALSE
    /\ isPaused' = FALSE
    /\ UNCHANGED <<stream, rendered, mediaRecorderRef, intervalRef, besideRecorder>>

NextRecorder ==
    \/ Render
    \/ StartRecording
    \/ PauseRecording
    \/ ResumeRecording
    \/ StopRecording
    \/ ResetRecording
    \/ \E k \in 1..Len(mediaRecorders) : OnStop(k)

SpecRecorder == InitRecorder /\ [][NextRecorder]_vars

\* C30: after any sequence of calls of the functions of the hook and stop
\* events of its recorders, isPaused is true only while isRecording is true.
C30_PausedOnlyWhileRecording == isPaused => isRecording

=============================================================================
